---- MODULE Spec2Model ----
(***************************************************************************)
(* Collection Explorer for Zotero: the folder-row overlay (render.ts), its *)
(* debounced re-render controller (controller.ts) and the navigation       *)
(* history it feeds (navigation.ts), as a state machine.                   *)
(*                                                                         *)
(* The program is single threaded: every action below is one macrotask     *)
(* (an event handler, a timer callback, an animation-frame callback) or    *)
(* one step of the host.  Synchronous code is written as operators that    *)
(* take the whole state as a record `s` and return the state it leaves.    *)
(***************************************************************************)
EXTENDS Integers, Sequences, FiniteSets, TLC

\* ------------------------------------------------------------------ bounds
MaxHandles == 8      \* timer / frame handles that may be live at once
MaxScroll == 5       \* scroll coordinates the host writes are in 0..MaxScroll
MaxOffset == 3       \* offsets passed to setExtraTopOffset are in -1..MaxOffset
MaxHistory == 1      \* navigations to collections explored per behaviour
MaxCols == 2         \* header cells the host header may show
MaxSettle == 1       \* untracked timers of one kind, and awaited calls, pending at once
MaxReentry == 1      \* calls of scheduleRerender made on the stack of a render cycle
MaxTrail == 2        \* entries of navHistory where back / forward steps are explored
MaxQueue == 2        \* back / forward steps that may be unsettled at once
MaxBacklog == 2      \* callbacks pending when a window that comes and goes is asked to render
MaxItems == 1        \* items of the library (their ids are 1..MaxItems)
MaxNative == 2       \* rows of its own the host list shows
MaxDrops == 1        \* drops on breadcrumbs explored per behaviour, where the items are followed
MaxVisits == 3       \* entries of the history, where every collection may be visited
MaxSettling == 1     \* steps whose settle timer is pending at a time, on that history
MaxStack == 3        \* nested calls the call stack has room for

\* ------------------------------------------------------- program constants
NULL == 0                                  \* JS null for handles and ids
LIBRARY_CONTEXT_SENTINEL_OFFSET == 1000000
userLibraryID == 1
RowHeight == 28
StartupDelay == 10
ItemDropDelay == 140
PatchedSelectDelay == 120
HistoryRerenderDelay == 120
TreeEventDelay == 180
PollDelay == 200
ActivateDelay == 260
SettleRerenderDelay == 120
MoveRerenderDelay == 200
MinTrackWidth == 40

Containers == 1..3
Items == 1..MaxItems                       \* items of the library
NoItems == [c \in Containers |-> {}]       \* the collections hold no item
\* what the host holds of the change listener: the layers of patchedSelect over
\* its selection.select (and the layers under the one the restore closure puts
\* back), the __zfePatched mark, the pairs of listeners on the collections
\* tree, the live intervals; whether the pane and its tree are there, and
\* whether the pane has an items view with a root element
NoHooks ==
  [select |-> 0, original |-> 0, zfePatched |-> FALSE, listeners |-> 0,
   intervals |-> 0, paneReady |-> TRUE, itemsRoot |-> TRUE]
Elements == 1..2                           \* items-body elements the host may show

Max(a, b) == IF a >= b THEN a ELSE b

\* ------------------------------------------------------------------- state
VARIABLES
  \* controller.ts
  rerenderTimer, rafHandle, renderInFlight,
  checkInterval, collectionSelectCleanup, collectionSelectionRestore,
  \* render.ts
  folderRows, selectedFolderRow, currentCollectionID, lastRenderedCollectionID,
  currentGridTemplate, headerResizeObserver, columnsMutationObserver, folderRowsResizeObserver,
  windowResizeCleanup, itemsBodyCleanup, extraTopOffset,
  extraTopOffsetMeasureHandle, scrollCompensationState,
  \* navigation.ts
  navHistory, navIndex, pendingHistoryNavigations,
  navStripEnabled, navStrip, navOverflowMenuCleanup,
  \* event loop of the host window
  timers, frames, running, awaiting,
  \* host: collection tree, items pane DOM, hierarchy store
  hostSelection, itemsBody, headerCells, headerWidths, platform, scrollTop, patched,
  bodyChildren, parentID, nativeSelection, fault, windowReachable, viewScroller,
  collectionItems, hostHooks,
  \* observation (history variables, read by the properties only)
  op, obs

vars == <<rerenderTimer, rafHandle, renderInFlight, checkInterval,
          collectionSelectCleanup, collectionSelectionRestore, folderRows,
          selectedFolderRow, currentCollectionID, lastRenderedCollectionID,
          headerResizeObserver, columnsMutationObserver,
          folderRowsResizeObserver, windowResizeCleanup, itemsBodyCleanup,
          extraTopOffset, extraTopOffsetMeasureHandle, scrollCompensationState,
          navHistory, navIndex, pendingHistoryNavigations,
          navStripEnabled, navStrip, navOverflowMenuCleanup,
          timers, frames, running, awaiting, hostSelection, itemsBody, headerCells,
          platform, scrollTop, patched, bodyChildren, parentID,
          nativeSelection, currentGridTemplate, headerWidths, fault,
          windowReachable, viewScroller, collectionItems, hostHooks, op, obs>>

\* The whole state as one record, and its write-back.
Cur ==
  [rerenderTimer |-> rerenderTimer, rafHandle |-> rafHandle,
   renderInFlight |-> renderInFlight, checkInterval |-> checkInterval,
   collectionSelectCleanup |-> collectionSelectCleanup,
   collectionSelectionRestore |-> collectionSelectionRestore,
   folderRows |-> folderRows, selectedFolderRow |-> selectedFolderRow,
   currentCollectionID |-> currentCollectionID,
   lastRenderedCollectionID |-> lastRenderedCollectionID,
   headerResizeObserver |-> headerResizeObserver,
   columnsMutationObserver |-> columnsMutationObserver,
   folderRowsResizeObserver |-> folderRowsResizeObserver,
   windowResizeCleanup |-> windowResizeCleanup,
   itemsBodyCleanup |-> itemsBodyCleanup, extraTopOffset |-> extraTopOffset,
   extraTopOffsetMeasureHandle |-> extraTopOffsetMeasureHandle,
   scrollCompensationState |-> scrollCompensationState,
   navHistory |-> navHistory, navIndex |-> navIndex,
   pendingHistoryNavigations |-> pendingHistoryNavigations,
   navStripEnabled |-> navStripEnabled, navStrip |-> navStrip,
   navOverflowMenuCleanup |-> navOverflowMenuCleanup,
   timers |-> timers, frames |-> frames, running |-> running,
   awaiting |-> awaiting,
   hostSelection |-> hostSelection, itemsBody |-> itemsBody,
   headerCells |-> headerCells, platform |-> platform, scrollTop |-> scrollTop,
   patched |-> patched, bodyChildren |-> bodyChildren, parentID |-> parentID,
   nativeSelection |-> nativeSelection, fault |-> fault,
   windowReachable |-> windowReachable, viewScroller |-> viewScroller,
   collectionItems |-> collectionItems, hostHooks |-> hostHooks,
   currentGridTemplate |-> currentGridTemplate, headerWidths |-> headerWidths,
   op |-> op, obs |-> obs]

Commit(s) ==
  /\ rerenderTimer' = s.rerenderTimer
  /\ rafHandle' = s.rafHandle
  /\ renderInFlight' = s.renderInFlight
  /\ checkInterval' = s.checkInterval
  /\ collectionSelectCleanup' = s.collectionSelectCleanup
  /\ collectionSelectionRestore' = s.collectionSelectionRestore
  /\ folderRows' = s.folderRows
  /\ selectedFolderRow' = s.selectedFolderRow
  /\ currentCollectionID' = s.currentCollectionID
  /\ lastRenderedCollectionID' = s.lastRenderedCollectionID
  /\ headerResizeObserver' = s.headerResizeObserver
  /\ columnsMutationObserver' = s.columnsMutationObserver
  /\ folderRowsResizeObserver' = s.folderRowsResizeObserver
  /\ windowResizeCleanup' = s.windowResizeCleanup
  /\ itemsBodyCleanup' = s.itemsBodyCleanup
  /\ extraTopOffset' = s.extraTopOffset
  /\ extraTopOffsetMeasureHandle' = s.extraTopOffsetMeasureHandle
  /\ scrollCompensationState' = s.scrollCompensationState
  /\ navHistory' = s.navHistory
  /\ navIndex' = s.navIndex
  /\ pendingHistoryNavigations' = s.pendingHistoryNavigations
  /\ navStripEnabled' = s.navStripEnabled
  /\ navStrip' = s.navStrip
  /\ navOverflowMenuCleanup' = s.navOverflowMenuCleanup
  /\ timers' = s.timers
  /\ frames' = s.frames
  /\ running' = s.running
  /\ awaiting' = s.awaiting
  /\ hostSelection' = s.hostSelection
  /\ itemsBody' = s.itemsBody
  /\ headerCells' = s.headerCells
  /\ platform' = s.platform
  /\ scrollTop' = s.scrollTop
  /\ patched' = s.patched
  /\ bodyChildren' = s.bodyChildren
  /\ parentID' = s.parentID
  /\ nativeSelection' = s.nativeSelection
  /\ fault' = s.fault
  /\ windowReachable' = s.windowReachable
  /\ viewScroller' = s.viewScroller
  /\ collectionItems' = s.collectionItems
  /\ hostHooks' = s.hostHooks
  /\ currentGridTemplate' = s.currentGridTemplate
  /\ headerWidths' = s.headerWidths
  /\ op' = s.op
  /\ obs' = s.obs


\* ----------------------------------------------------------- host queries
\* A context of the collection tree: a collection row, the library row, or a
\* row that is neither (trash, unfiled, ...).
Contexts ==
  {[rowType |-> "collection", id |-> c] : c \in Containers}
    \cup {[rowType |-> "library", id |-> NULL], [rowType |-> "other", id |-> NULL]}

encodeLibraryContextID(libraryID) == 0 - (LIBRARY_CONTEXT_SENTINEL_OFFSET + libraryID)

\* faulty variant: the id of the selected collection, or null
computeSelectionContextID_CollectionOnly(sel) ==
  IF sel.rowType = "collection" THEN sel.id ELSE NULL

\* selected?.id, else the encoded library id on the library row, else null
computeSelectionContextID(sel) ==
  IF sel.rowType = "collection" THEN sel.id
  ELSE IF sel.rowType = "library" THEN encodeLibraryContextID(userLibraryID)
  ELSE NULL

getCurrentSelectionKey(s) == computeSelectionContextID(s.hostSelection)

getLastRenderedCollectionID(s) == s.lastRenderedCollectionID

RECURSIVE IdsFrom(_, _, _)
IdsFrom(s, p, c) ==
  IF c \notin Containers THEN <<>>
  ELSE (IF s.parentID[c] = p THEN <<c>> ELSE <<>>) \o IdsFrom(s, p, c + 1)

\* Zotero.Collections.getByParent(id): the children in store order
getByParent(s, id) == IdsFrom(s, id, 1)

\* faulty variant: every collection of the library, nested ones too
getByLibrary_Unfiltered(s) == [c \in Containers |-> c]

\* Zotero.Collections.getByLibrary(lib).filter(c => !c.parentID)
getByLibraryTopLevel(s) == IdsFrom(s, NULL, 1)

\* ------------------------------------------------------------- event loop
FreeTimerIds(s) == {i \in 1..MaxHandles :
                      /\ \A t \in s.timers : t.id # i
                      /\ i # s.rerenderTimer}

FreeFrameIds(s) == {i \in 1..MaxHandles :
                      /\ \A k \in 1..Len(s.frames) : s.frames[k].id # i
                      /\ i \notin s.running
                      /\ i # s.rafHandle
                      /\ i # s.extraTopOffsetMeasureHandle}

Least(S) == CHOOSE i \in S : \A j \in S : i <= j

\* window.setTimeout(cb, delay): `kind` names the callback, `a` its captured
\* value.  The delay orders timers in wall-clock time only; any pending timer
\* may be the next to fire, which covers every order the delays allow.
setTimeout(s, kind, a) ==
  [s EXCEPT !.timers = @ \cup {[id |-> Least(FreeTimerIds(s)), kind |-> kind, a |-> a]}]

clearTimeout(s, handle) ==
  [s EXCEPT !.timers = {t \in @ : t.id # handle}]

\* win.cancelAnimationFrame(handle): the window's list of animation-frame
\* callbacks loses the one with that handle, if there is one
cancelAnimationFrame(s, handle) ==
  [s EXCEPT !.frames = SelectSeq(@, LAMBDA f : f.id # handle)]

\* the timer that stands for a frame callback where the window is not reachable
FallbackKind(kind) ==
  IF kind = "render" THEN "fbRender"
  ELSE IF kind = "measure" THEN "fbMeasure"
  ELSE IF kind = "snapFirst" THEN "fbSnapFirst"
  ELSE "fbSnapSecond"

FrameKind(timerKind) ==
  IF timerKind = "fbRender" THEN "render"
  ELSE IF timerKind = "fbMeasure" THEN "measure"
  ELSE IF timerKind = "fbSnapFirst" THEN "snapFirst"
  ELSE "snapSecond"

FallbackKinds == {"fbRender", "fbMeasure", "fbSnapFirst", "fbSnapSecond"}

\* requestNextFrame(cb): the handle it returns is NextFrameHandle(s); `frames`
\* is the window's list of animation-frame callbacks, in request order, and
\* `running` holds the handles of the batch the window is running.  Frame
\* handles and timer handles are numbers of two separate series.
NextFrameHandle(s) ==
  IF s.windowReachable THEN Least(FreeFrameIds(s)) ELSE Least(FreeTimerIds(s))

requestNextFrame(s, kind, a) ==
  IF s.windowReachable
    THEN [s EXCEPT !.frames = Append(@, [id |-> NextFrameHandle(s), kind |-> kind,
                                         a |-> a])]
    ELSE setTimeout(s, FallbackKind(kind), a)

cancelFrame(s, handle) ==
  IF s.windowReachable THEN cancelAnimationFrame(s, handle) ELSE clearTimeout(s, handle)

\* ------------------------------------------------------------- exceptions
\* `fault` names the step of the running macrotask whose DOM or host call
\* throws ("none": no call throws); it is "thrown" while an exception unwinds
\* the stack, and an exception no handler has caught is left as "thrown" for
\* the host.
Faults == {"selection", "navStrip", "history", "store", "insert", "columns",
           "resizeObserver", "scroll", "observers"}

Throw(s) == [s EXCEPT !.fault = "thrown"]

\* ------------------------------------------------ scroll compensation (render.ts)
NoComp == [scroller |-> NULL, layer |-> "none"]

getExtraTopOffset(s) == s.extraTopOffset

\* An element has a layout box (and so a scroll position) only while it is the
\* items body the host shows.
IsConnected(s, el) == el # NULL /\ el = s.itemsBody

\* the native scrollTop getter / setter of element el
NativeGet(s, el) == IF IsConnected(s, el) THEN s.scrollTop ELSE 0

NativeSet(s, el, value) ==
  IF IsConnected(s, el) THEN [s EXCEPT !.scrollTop = Max(0, value)] ELSE s

sanitizeScrollValue(value) == value

\* the get / set of the accessor pair that tryPatchScrollTopAccessor defines on
\* the scroller
accessorGet(s, el) ==
  LET raw == NativeGet(s, el)
      logical == raw - getExtraTopOffset(s)
  IN IF logical > 0 THEN logical ELSE 0

accessorSet(s, el, value) ==
  LET desired == sanitizeScrollValue(value)
      target == desired + getExtraTopOffset(s)
  IN NativeSet(s, el, IF target < 0 THEN 0 ELSE target)

\* the get / set traps of createScrollerProxy for "scrollTop"
proxyGet(s, el) ==
  LET raw == NativeGet(s, el)
      logical == raw - getExtraTopOffset(s)
  IN IF logical > 0 THEN logical ELSE 0

\* faulty variant: the trap stores the logical value as the true one
proxySet_NoOffset(s, el, value) == NativeSet(s, el, Max(0, sanitizeScrollValue(value)))

proxySet(s, el, value) ==
  LET desired == sanitizeScrollValue(value)
      next == Max(0, desired + getExtraTopOffset(s))
  IN NativeSet(s, el, next)

\* el.scrollTop is our accessor pair / the items view's fields hold our proxy of el
IsPatched(s, el) == \E p \in s.patched : p.el = el

IsAccessorPatched(s, el) == [el |-> el, layer |-> "accessor"] \in s.patched

\* el.scrollTop read / written on the element itself
ElementGet(s, el) == IF IsAccessorPatched(s, el) THEN accessorGet(s, el) ELSE NativeGet(s, el)

ElementSet(s, el, value) ==
  IF IsAccessorPatched(s, el) THEN accessorSet(s, el, value) ELSE NativeSet(s, el, value)

\* readNative / writeNative of the accessor strategy call the original
\* descriptor; those of the proxy strategy use scroller.scrollTop of the element
accessorReadNative(s, scroller) == NativeGet(s, scroller)

accessorWriteNative(s, scroller, value) == NativeSet(s, scroller, value)

proxyReadNative(s, scroller) == sanitizeScrollValue(ElementGet(s, scroller))

proxyWriteNative(s, scroller, value) ==
  ElementSet(s, scroller, Max(0, sanitizeScrollValue(value)))

\* scrollCompensationState.readNative / writeNative
readNative(s) ==
  IF s.scrollCompensationState.layer = "accessor"
    THEN accessorReadNative(s, s.scrollCompensationState.scroller)
    ELSE proxyReadNative(s, s.scrollCompensationState.scroller)

writeNative(s, value) ==
  IF s.scrollCompensationState.layer = "accessor"
    THEN accessorWriteNative(s, s.scrollCompensationState.scroller, value)
    ELSE proxyWriteNative(s, s.scrollCompensationState.scroller, value)

\* a read / write of the scroll coordinate through the patch on el
LogicalGet(s, el) == IF IsAccessorPatched(s, el) THEN accessorGet(s, el) ELSE proxyGet(s, el)

LogicalSet(s, el, value) ==
  IF IsAccessorPatched(s, el) THEN accessorSet(s, el, value) ELSE proxySet(s, el, value)

\* what the host list view gets when it reads / writes the scroll coordinate of
\* its scroller (through the element, or through its own fields under the proxy)
HostReadScrollTop(s) ==
  IF IsPatched(s, s.itemsBody) THEN LogicalGet(s, s.itemsBody)
  ELSE NativeGet(s, s.itemsBody)

HostWriteScrollTop(s, value) ==
  IF IsPatched(s, s.itemsBody) THEN LogicalSet(s, s.itemsBody, value)
  ELSE NativeSet(s, s.itemsBody, value)

\* faulty variant: records the offset without moving the true coordinate
setExtraTopOffset_NoNudge(s, value) == [s EXCEPT !.extraTopOffset = Max(0, value)]

setExtraTopOffset(s, value) ==
  LET clamped == Max(0, value)
      previous == s.extraTopOffset
      s1 == [s EXCEPT !.extraTopOffset = clamped]
      delta == clamped - previous
  IN IF clamped = s.extraTopOffset THEN s
     ELSE IF s.scrollCompensationState = NoComp THEN s1
     ELSE IF delta = 0 THEN s1
     ELSE writeNative(s1, Max(0, readNative(s1) + delta))

\* The accessor teardown deletes the own scrollTop property of the scroller;
\* the proxy teardown writes the scroller it was made for back into the fields
\* of the items view.
teardownScrollTopCompensation(s) ==
  IF s.scrollCompensationState = NoComp THEN s
  ELSE [s EXCEPT !.patched = @ \ {[el |-> s.scrollCompensationState.scroller,
                                    layer |-> s.scrollCompensationState.layer]},
                 !.viewScroller = IF s.scrollCompensationState.layer = "proxy"
                                    THEN s.scrollCompensationState.scroller
                                    ELSE @,
                 !.scrollCompensationState = NoComp]

getScrollHostForBody(body) == body

\* tryPatchScrollTopAccessor succeeds where the platform lets scrollTop be
\* redefined
tryPatchScrollTopAccessor(s, scroller) == s.platform = "accessor"

\* tryProxyScrollTop succeeds where a field of the items view holds the scroller
tryProxyScrollTop(s, scroller) == s.platform = "proxy" /\ s.viewScroller = scroller

Install(s, scroller, layer) ==
  [s EXCEPT !.patched = @ \cup {[el |-> scroller, layer |-> layer]},
            !.scrollCompensationState = [scroller |-> scroller, layer |-> layer]]

\* faulty variant: installs the new patch without tearing down the previous one
ensureScrollTopCompensation_NoTeardown(s, body) ==
  LET scroller == getScrollHostForBody(body)
  IN IF scroller = NULL THEN s
     ELSE IF s.scrollCompensationState.scroller = scroller THEN s
     ELSE IF tryPatchScrollTopAccessor(s, scroller) THEN Install(s, scroller, "accessor")
     ELSE IF tryProxyScrollTop(s, scroller) THEN Install(s, scroller, "proxy")
     ELSE s

\* otherwise rendering goes on without compensation
ensureScrollTopCompensation(s, body) ==
  LET scroller == getScrollHostForBody(body)
      s1 == teardownScrollTopCompensation(s)
  IN IF scroller = NULL THEN s
     ELSE IF s.scrollCompensationState.scroller = scroller THEN s
     ELSE IF tryPatchScrollTopAccessor(s1, scroller) THEN Install(s1, scroller, "accessor")
     ELSE IF tryProxyScrollTop(s1, scroller) THEN Install(s1, scroller, "proxy")
     ELSE s1

setScrollerActualScroll(s, scroller, actualValue) ==
  LET numeric == Max(0, actualValue)
  IN IF scroller = NULL THEN s
     ELSE IF s.fault = "scroll" THEN s
     ELSE IF s.scrollCompensationState.scroller = scroller THEN writeNative(s, numeric)
     ELSE ElementSet(s, scroller, numeric)

\* snaps now and again in each of the next two frames ("snapFirst" requests
\* "snapSecond"); the frame record carries the scroller the closure captured
scrollBodyToTop(s, body) ==
  LET scroller ==
        IF IsConnected(s, s.scrollCompensationState.scroller)
          THEN s.scrollCompensationState.scroller
          ELSE getScrollHostForBody(body)
  IN IF body = NULL THEN s
     ELSE requestNextFrame(setScrollerActualScroll(s, scroller, 0), "snapFirst", scroller)


\* ------------------------------------------------------ navigation.ts (history)
updateNavButtonsEnabled(s) == s

closeBreadcrumbOverflowMenu(s) == [s EXCEPT !.navOverflowMenuCleanup = FALSE]

removeNavStrip(s) == [closeBreadcrumbOverflowMenu(s) EXCEPT !.navStrip = FALSE]

\* mounts the strip next to the items list, unless it is mounted or the pane has
\* no items view root (pane?.itemsView?.domEl)
mountNavStrip(s) ==
  IF ~s.navStripEnabled THEN removeNavStrip(s)
  ELSE IF s.navStrip THEN s
  ELSE IF ~s.hostHooks.itemsRoot THEN s
  ELSE [s EXCEPT !.navStrip = TRUE]

\* the call stack has no room for another frame of updateNavStrip: the engine
\* raises a RangeError in the innermost call
StackExhausted(s) == [Throw(s) EXCEPT !.obs.exhausted = TRUE]

\* the call of updateNavStrip at `depth` nested calls;
\* rebuilds the breadcrumbs, closes an open overflow menu first
RECURSIVE updateNavStripAt(_, _)
updateNavStripAt(s, depth) ==
  IF ~s.navStripEnabled THEN removeNavStrip(s)
  ELSE IF ~s.navStrip
    THEN IF depth >= MaxStack THEN StackExhausted(s)
         ELSE updateNavStripAt(mountNavStrip(s), depth + 1)
  ELSE updateNavButtonsEnabled(closeBreadcrumbOverflowMenu(s))

updateNavStrip(s) == updateNavStripAt(s, 0)

\* faulty variant: records the visit whether or not a step is awaited
pushToHistory_NoQueue(s, id) ==
  IF id = NULL THEN s
  ELSE IF s.navIndex >= 0 /\ s.navHistory[s.navIndex + 1] = id
    THEN updateNavButtonsEnabled(s)
  ELSE IF Len(s.navHistory) > 0 /\ s.navHistory[Len(s.navHistory)] = id
    THEN updateNavButtonsEnabled([s EXCEPT !.navIndex = Len(s.navHistory) - 1])
  ELSE LET kept == IF s.navIndex < Len(s.navHistory) - 1
                     THEN SubSeq(s.navHistory, 1, s.navIndex + 1)
                     ELSE s.navHistory
       IN updateNavButtonsEnabled(
            [s EXCEPT !.navHistory = Append(kept, id), !.navIndex = Len(kept)])

\* faulty variant: appends whatever the current and the last entry are
pushToHistory_NoDuplicateGuard(s, id) ==
  IF id = NULL THEN s
  ELSE IF Len(s.pendingHistoryNavigations) > 0 /\ s.pendingHistoryNavigations[1] = id
    THEN updateNavButtonsEnabled(
           [s EXCEPT !.pendingHistoryNavigations = Tail(@)])
  ELSE IF Len(s.pendingHistoryNavigations) > 0 THEN s
  ELSE LET kept == IF s.navIndex < Len(s.navHistory) - 1
                     THEN SubSeq(s.navHistory, 1, s.navIndex + 1)
                     ELSE s.navHistory
       IN updateNavButtonsEnabled(
            [s EXCEPT !.navHistory = Append(kept, id), !.navIndex = Len(kept)])

pushToHistory(s, id) ==
  IF id = NULL THEN s
  ELSE IF Len(s.pendingHistoryNavigations) > 0 /\ s.pendingHistoryNavigations[1] = id
    THEN updateNavButtonsEnabled(
           [s EXCEPT !.pendingHistoryNavigations = Tail(@)])
  ELSE IF Len(s.pendingHistoryNavigations) > 0 THEN s
  ELSE IF s.navIndex >= 0 /\ s.navHistory[s.navIndex + 1] = id
    THEN updateNavButtonsEnabled(s)
  ELSE IF Len(s.navHistory) > 0 /\ s.navHistory[Len(s.navHistory)] = id
    THEN updateNavButtonsEnabled([s EXCEPT !.navIndex = Len(s.navHistory) - 1])
  ELSE LET kept == IF s.navIndex < Len(s.navHistory) - 1
                     THEN SubSeq(s.navHistory, 1, s.navIndex + 1)
                     ELSE s.navHistory
       IN updateNavButtonsEnabled(
            [s EXCEPT !.navHistory = Append(kept, id), !.navIndex = Len(kept)])

\* ------------------------------------------- navigation.ts (collection drops)
\* the collections of the breadcrumb chain from collection `cur` up to its root
RECURSIVE CollectionChain(_, _, _)
CollectionChain(s, cur, fuel) ==
  IF cur = NULL \/ fuel = 0 THEN {}
  ELSE {cur} \cup CollectionChain(s, s.parentID[cur], fuel - 1)

\* the collection ids of the breadcrumb segments for the current selection
getPathSegments(s) ==
  IF s.hostSelection.rowType = "collection"
    THEN CollectionChain(s, s.hostSelection.id, Cardinality(Containers))
    ELSE {}

\* the loop of isAncestorCollection: cursor is a collection, safety the parents seen
RECURSIVE AncestorWalk(_, _, _, _)
AncestorWalk(s, ancestorID, cursor, safety) ==
  LET p == s.parentID[cursor]
  IN IF p = NULL THEN FALSE
     ELSE IF p \in safety THEN FALSE
     ELSE IF p = ancestorID THEN TRUE
     ELSE AncestorWalk(s, ancestorID, p, safety \cup {p})

\* faulty variant: compares the two ids and walks no chain
isAncestorCollection_SelfOnly(s, ancestorID, candidateChildID) ==
  ancestorID = candidateChildID

isAncestorCollection(s, ancestorID, candidateChildID) ==
  IF ancestorID = candidateChildID THEN TRUE
  ELSE AncestorWalk(s, ancestorID, candidateChildID, {})

\* up to the first await: the parent is set, by the pane's moveCollection
\* where the host has one and else on the collection object, and the rest of
\* the function waits for the move to be saved
moveCollectionToParent(s, collectionID, newParentID, viaMover) ==
  IF collectionID = newParentID THEN s
  ELSE IF isAncestorCollection(s, collectionID, newParentID) THEN s
  ELSE IF s.parentID[collectionID] = newParentID THEN s
  ELSE [s EXCEPT !.parentID[collectionID] = newParentID,
                 !.awaiting = @ \cup {[kind |-> IF viaMover THEN "moved" ELSE "saved",
                                        a |-> collectionID]},
                 !.obs.reparented = TRUE]

\* ---- items moved between collections (render.ts and navigation.ts hold the
\* same moveItemsToCollection / removeItemsFromCollection).  `host` says what the
\* hierarchy store offers at the drop: whether the target collection exists,
\* where addItems is found ("collection": on the collection object, "global":
\* on Zotero.Collections, "none": nowhere) and whether the add throws.
AddOps == {"collection", "global", "none"}

\* (what the store offers does not matter when the target is missing, and an
\* add that is not there cannot throw)
HostShapes ==
  {h \in [exists : BOOLEAN, addOp : AddOps, throws : BOOLEAN] :
     /\ ~h.exists => (h.addOp = "collection" /\ ~h.throws)
     /\ h.addOp = "none" => ~h.throws}

\* The membership of items is followed in the specifications about moves of
\* items; in the others the store is opaque (collectionItems stays as it is).
StoreFollowed(s) == s.obs.mode \in {"items", "crumb"}

\* addItems of the store: the items that exist become members of the collection
addItems(s, coll, ids) ==
  IF ~StoreFollowed(s) THEN s
  ELSE [s EXCEPT !.collectionItems[coll] = @ \cup (ids \cap Items),
                 !.obs.storeCalls = Append(@, [kind |-> "add", coll |-> coll])]

\* removeItems / removeFromCollection of the store
removeItems(s, coll, ids) ==
  IF ~StoreFollowed(s) THEN s
  ELSE [s EXCEPT !.collectionItems[coll] = @ \ ids,
                 !.obs.storeCalls = Append(@, [kind |-> "remove", coll |-> coll])]

\* the three removals of removeItemsFromCollection take the same items out of
\* the same collection
removeItemsFromCollection(s, ids, sourceCollectionID) ==
  removeItems(s, sourceCollectionID, ids)

normalizeItemIDs(value) == value

\* parseItemIDPayload of a payload that is one number: JSON.parse gives a
\* number (no array), and the digits of the text are taken as an item id
parseItemIDPayload(raw) == IF raw = NULL THEN {} ELSE normalizeItemIDs({raw})

\* runAdd then runRemove (in one transaction where the store has transactions);
\* an add that throws ends the move with nothing stored.  What follows the
\* awaited calls is ItemMoveContinues.
moveItemsToCollection(s, itemIDs, targetCollectionID, sourceCollectionID, host) ==
  LET ids == normalizeItemIDs(itemIDs)
      liveSelectedID ==
        IF s.hostSelection.rowType = "collection" THEN s.hostSelection.id ELSE NULL
      sourceID ==
        IF liveSelectedID # NULL /\ liveSelectedID # targetCollectionID THEN liveSelectedID
        ELSE IF sourceCollectionID # NULL /\ sourceCollectionID # targetCollectionID
          THEN sourceCollectionID
        ELSE NULL
      runAdd == IF host.addOp = "none" THEN s ELSE addItems(s, targetCollectionID, ids)
      runRemove ==
        IF sourceID = NULL THEN runAdd ELSE removeItemsFromCollection(runAdd, ids, sourceID)
  IN IF ids = {} THEN s
     ELSE IF ~host.exists THEN s
     ELSE IF host.addOp # "none" /\ host.throws THEN s
     ELSE [runRemove EXCEPT
             !.awaiting = @ \cup {[kind |-> "items", a |-> targetCollectionID]}]

\* the drop handler of the breadcrumb of targetCollectionID, a collection
\* dragged: the drag data holds its id, which getDraggedItemIDs parses as well
handleCrumbDrop(s, collectionID, targetCollectionID, viaMover, host) ==
  IF collectionID # targetCollectionID
       /\ ~isAncestorCollection(s, collectionID, targetCollectionID)
    THEN moveCollectionToParent(s, collectionID, targetCollectionID, viaMover)
    ELSE LET itemIDs == parseItemIDPayload(collectionID)
             sourceID ==
               IF s.hostSelection.rowType = "collection" THEN s.hostSelection.id ELSE NULL
         IN IF itemIDs = {} THEN s
            ELSE moveItemsToCollection(s, itemIDs, targetCollectionID, sourceID, host)

\* scrollItemsBodyToTopSoon: a 120 ms timer that writes body.scrollTop = 0
scrollItemsBodyToTopSoon(s) == setTimeout(s, "scrollSoon", NULL)

\* its callback: the body is looked up and written through the element
ScrollSoonCallback(s) ==
  IF s.itemsBody = NULL THEN s
  ELSE ElementSet(s, s.itemsBody, 0)

\* ------------------------------------------------------------ rows (render.ts)
\* A DOM node of the items body: a native row of the host, or one of our rows.
\* A grid template: "auto", "1fr", or one track in px per entry of `tracks`
\* (the string joins them with spaces).
AutoTemplate == [unit |-> "auto", tracks |-> <<>>]

NativeRow(k) ==
  [role |-> "row", zfe |-> FALSE, coll |-> k, cells |-> 0, parent |-> NULL,
   template |-> AutoTemplate]

\* a child of the body that is no row (a spacer of the host's list)
Spacer ==
  [role |-> "none", zfe |-> FALSE, coll |-> 0, cells |-> 0, parent |-> NULL,
   template |-> AutoTemplate]

\* header cell widths are kept in half pixels; Math.round of such a width
Round(halfPx) == (halfPx + 1) \div 2

\* the widths the host gives a header of n columns
DefaultWidths(n) == [i \in 1..n |-> 2 * (300 - 100 * i)]

\* faulty variant: keeps the template for rows built later only
updateFolderRowGridTemplate_NewRowsOnly(s, template) ==
  [s EXCEPT !.currentGridTemplate = template]

updateFolderRowGridTemplate(s, template) ==
  LET restyle(n) == [n EXCEPT !.template = template]
  IN [s EXCEPT
        !.currentGridTemplate = template,
        !.bodyChildren = [i \in 1..Len(@) |->
                            IF \E j \in 1..Len(s.folderRows) : s.folderRows[j] = @[i]
                              THEN restyle(@[i]) ELSE @[i]],
        !.folderRows = [i \in 1..Len(@) |-> restyle(@[i])]]

\* `widths` are the widths of the header cells
applyGridTemplateFromHeader(s, widths) ==
  updateFolderRowGridTemplate(s,
    IF Len(widths) > 0
      THEN [unit |-> "px",
            tracks |-> [i \in 1..Len(widths) |-> Max(MinTrackWidth, Round(widths[i]))]]
      ELSE [unit |-> "fr", tracks |-> <<1>>])

\* headerRow ? getHeaderCellsFrom(headerRow) : []
getHeaderCellsFrom(s) == s.headerWidths

getCurrentColumnCount(s) == Max(1, s.headerCells)

buildFolderRow(s, subCol, parentCollectionID) ==
  [role |-> "row", zfe |-> TRUE, coll |-> subCol,
   cells |-> getCurrentColumnCount(s), parent |-> parentCollectionID,
   template |-> s.currentGridTemplate]

InRows(n, rows) == \E i \in 1..Len(rows) : rows[i] = n

detachItemsBodyListeners(s) == [s EXCEPT !.itemsBodyCleanup = FALSE]

attachItemsBodyListeners(s, body) ==
  [detachItemsBodyListeners(s) EXCEPT !.itemsBodyCleanup = TRUE]

detachFolderRowsResizeObserver(s) == [s EXCEPT !.folderRowsResizeObserver = FALSE]

attachFolderRowsResizeObserver(s, container) ==
  LET s1 == detachFolderRowsResizeObserver(s)
  IN IF container = NULL THEN s1
     ELSE IF s.fault = "resizeObserver" THEN s1
     ELSE [s1 EXCEPT !.folderRowsResizeObserver = TRUE]

ensureWindowResizeListener(s) == [s EXCEPT !.windowResizeCleanup = TRUE]

teardownWindowResizeListener(s) == [s EXCEPT !.windowResizeCleanup = FALSE]

detachHeaderObservers(s) ==
  [s EXCEPT !.headerResizeObserver = FALSE, !.columnsMutationObserver = FALSE]

\* headerRow is null when the header shows no cell
attachHeaderObservers(s) ==
  LET s1 == detachHeaderObservers(s)
  IN IF s.headerCells = 0 THEN s1
     ELSE [s1 EXCEPT !.headerResizeObserver = TRUE, !.columnsMutationObserver = TRUE]

scheduleExtraTopOffsetMeasure(s) ==
  IF s.extraTopOffsetMeasureHandle # NULL THEN s
  ELSE [requestNextFrame(s, "measure", NULL)
          EXCEPT !.extraTopOffsetMeasureHandle = NextFrameHandle(s)]

\* rows that are children of the items body the host shows
ConnectedRows(s) ==
  IF s.itemsBody = NULL THEN <<>>
  ELSE SelectSeq(s.folderRows, LAMBDA r : InRows(r, s.bodyChildren))

measureExtraTopOffsetNow(s) ==
  IF Len(s.folderRows) = 0 THEN setExtraTopOffset(s, 0)
  ELSE setExtraTopOffset(s, RowHeight * Len(ConnectedRows(s)))

\* faulty variant: empties the body instead of detaching the rows one by one
removeFolderRows_EmptyBody(s) ==
  LET s1 == [s EXCEPT !.bodyChildren = <<>>,
                      !.folderRows = <<>>,
                      !.selectedFolderRow = NULL,
                      !.currentCollectionID = NULL]
      s2 == detachFolderRowsResizeObserver(detachItemsBodyListeners(s1))
      s3 == IF s2.extraTopOffsetMeasureHandle # NULL
              THEN [cancelFrame(s2, s2.extraTopOffsetMeasureHandle)
                      EXCEPT !.extraTopOffsetMeasureHandle = NULL]
              ELSE s2
  IN setExtraTopOffset(s3, 0)

\* faulty variant: forgets the rows without detaching them from the body
removeFolderRows_KeepMounted(s) ==
  LET s1 == [s EXCEPT !.folderRows = <<>>,
                      !.selectedFolderRow = NULL,
                      !.currentCollectionID = NULL]
      s2 == detachFolderRowsResizeObserver(detachItemsBodyListeners(s1))
      s3 == IF s2.extraTopOffsetMeasureHandle # NULL
              THEN [cancelFrame(s2, s2.extraTopOffsetMeasureHandle)
                      EXCEPT !.extraTopOffsetMeasureHandle = NULL]
              ELSE s2
  IN setExtraTopOffset(s3, 0)

\* faulty variant: leaves selectedFolderRow as it is
removeFolderRows_KeepSelected(s) ==
  LET s1 == [s EXCEPT
               !.bodyChildren = SelectSeq(@, LAMBDA n : ~InRows(n, s.folderRows)),
               !.folderRows = <<>>,
               !.currentCollectionID = NULL]
      s2 == detachFolderRowsResizeObserver(detachItemsBodyListeners(s1))
      s3 == IF s2.extraTopOffsetMeasureHandle # NULL
              THEN [cancelFrame(s2, s2.extraTopOffsetMeasureHandle)
                      EXCEPT !.extraTopOffsetMeasureHandle = NULL]
              ELSE s2
  IN setExtraTopOffset(s3, 0)

removeFolderRows(s) ==
  LET s1 == [s EXCEPT
               !.bodyChildren = SelectSeq(@, LAMBDA n : ~InRows(n, s.folderRows)),
               !.folderRows = <<>>,
               !.selectedFolderRow = NULL,
               !.currentCollectionID = NULL]
      s2 == detachFolderRowsResizeObserver(detachItemsBodyListeners(s1))
      s3 == IF s2.extraTopOffsetMeasureHandle # NULL
              THEN [cancelFrame(s2, s2.extraTopOffsetMeasureHandle)
                      EXCEPT !.extraTopOffsetMeasureHandle = NULL]
              ELSE s2
  IN setExtraTopOffset(s3, 0)

findItemsBody(s) == s.itemsBody

\* faulty variant: the fragment goes before the first child of the body
FirstExistingRow_FirstChild(children) == 1

\* body.querySelector('[role="row"]') || body.firstChild: the position the
\* fragment is inserted before (past the end when the body is empty)
FirstExistingRow(children) ==
  IF \E i \in 1..Len(children) : children[i].role = "row"
    THEN Least({i \in 1..Len(children) : children[i].role = "row"})
    ELSE 1

InsertBefore(children, pos, rows) ==
  SubSeq(children, 1, pos - 1) \o rows \o SubSeq(children, pos, Len(children))

renderFolderRows(s, subcollections, resetScroll) ==
  LET body == findItemsBody(s)
      s1 == ensureScrollTopCompensation(s, body)
      createdRows == [i \in 1..Len(subcollections) |->
                        buildFolderRow(s1, subcollections[i], s1.currentCollectionID)]
      s2 == [s1 EXCEPT
               !.bodyChildren = InsertBefore(@, FirstExistingRow(@), createdRows),
               !.folderRows = createdRows]
      s3 == attachFolderRowsResizeObserver(
              ensureWindowResizeListener(attachItemsBodyListeners(
                applyGridTemplateFromHeader(s2, getHeaderCellsFrom(s)), body)), body)
      s4 == scheduleExtraTopOffsetMeasure(s3)
      s5 == IF resetScroll THEN scrollBodyToTop(s4, body) ELSE s4
  IN IF body = NULL
       THEN setExtraTopOffset(detachFolderRowsResizeObserver(s), 0)
     ELSE IF Len(subcollections) = 0
       THEN setExtraTopOffset(detachFolderRowsResizeObserver(s1), 0)
     ELSE IF s.fault = "insert" THEN Throw(s1)
     ELSE IF s.fault = "columns" THEN Throw(s2)
     ELSE IF s.fault = "observers" THEN Throw(detachHeaderObservers(s5))
     ELSE attachHeaderObservers(s5)

\* pane.getSelectedCollection() and the tree's focused row type
getSelectedCollection(s) == s.hostSelection

\* renderFolderRowsForCurrentCollection once `selected` has been read
renderSelection(s, selected) ==
  LET previousCollectionID == s.lastRenderedCollectionID
      key == computeSelectionContextID(selected)
      s1 == [s EXCEPT !.lastRenderedCollectionID = key,
                      !.currentCollectionID =
                         IF selected.rowType = "collection" THEN selected.id ELSE NULL]
      s1a == detachHeaderObservers(removeFolderRows(s1))
      s2 == updateNavStrip(s1a)
      isLibraryRow == selected.rowType = "library"
      s3 == IF selected.rowType = "collection" THEN pushToHistory(s2, selected.id) ELSE s2
      subcollections == IF selected.rowType = "collection"
                          THEN getByParent(s3, selected.id)
                          ELSE getByLibraryTopLevel(s3)
      shouldResetScroll == previousCollectionID # key
  IN IF s.fault = "selection" THEN Throw(s)
     ELSE IF s.fault = "navStrip" THEN Throw(s1a)
     ELSE IF selected.rowType # "collection" /\ ~isLibraryRow THEN s2
     ELSE IF s.fault = "history" /\ selected.rowType = "collection" THEN Throw(s3)
     ELSE IF s.fault = "store" THEN Throw(s3)
     ELSE renderFolderRows(s3, subcollections, shouldResetScroll)

\* faulty variant: renders the selection that was current when the render was requested
renderFolderRowsForCurrentCollection_Snapshot(s) == renderSelection(s, s.obs.triggerSel)

\* without a main window there is no active pane, and a pane may have no
\* items view yet: the cycle returns at once
renderFolderRowsForCurrentCollection(s) ==
  IF ~s.windowReachable \/ ~s.hostHooks.itemsRoot THEN s
  ELSE renderSelection(s, getSelectedCollection(s))


\* ------------------------------------------------- row selection (render.ts)
\* a node that has the role (or the class) of a row and is none of ours
isNativeItemRow(node) == node.role = "row" /\ ~node.zfe

\* the rows of the host under the body the listeners were attached to
getNativeRows(s) ==
  IF s.itemsBodyCleanup THEN SelectSeq(s.bodyChildren, isNativeItemRow) ELSE <<>>

hasNativeItemRows(s) == Len(getNativeRows(s)) > 0

getFirstNativeRow(s) == IF hasNativeItemRows(s) THEN getNativeRows(s)[1].coll ELSE NULL

isFirstNativeRow(s, k) == hasNativeItemRows(s) /\ getNativeRows(s)[1].coll = k

\* itemsView.selection.clearSelection(), with the pane's items view present
clearNativeItemSelection(s) ==
  [s EXCEPT !.nativeSelection = {}, !.obs.cleared = TRUE]

\* selection.clearAndSelect(index)
selectNativeRowElement(s, k) == [s EXCEPT !.nativeSelection = {k}]

\* `row` is the index of the row in folderRows, or NULL
setSelectedFolderRow(s, row) ==
  LET s1 == [s EXCEPT !.selectedFolderRow = row,
                      !.obs.selectCall = @ \/ row # NULL]
  IN IF s.selectedFolderRow = row
       THEN [s EXCEPT !.obs.selectCall = @ \/ row # NULL]
     ELSE IF row = NULL THEN s1
     ELSE clearNativeItemSelection(s1)

\* faulty variant: moves within the rows only, and never hands over to the
\* rows of the host
handleFolderRowArrowNavigation_NoHandOver(s, delta, origin) ==
  LET nextRow == Max(1, IF origin + delta > Len(s.folderRows)
                          THEN Len(s.folderRows) ELSE origin + delta)
  IN IF Len(s.folderRows) = 0 \/ origin \notin 1..Len(s.folderRows) THEN s
     ELSE IF nextRow # origin THEN setSelectedFolderRow(s, nextRow)
     ELSE s

\* ArrowDown (delta 1) / ArrowUp (delta -1) on the row at index origin
handleFolderRowArrowNavigation(s, delta, origin) ==
  LET isAtStart == origin = 1
      isAtEnd == origin = Len(s.folderRows)
      s1 == setSelectedFolderRow(s, NULL)
      nextRow == Max(1, IF origin + delta > Len(s.folderRows)
                          THEN Len(s.folderRows) ELSE origin + delta)
  IN IF Len(s.folderRows) = 0 \/ origin \notin 1..Len(s.folderRows) THEN s
     ELSE IF delta < 0 /\ isAtStart THEN s
     ELSE IF delta > 0 /\ isAtEnd
       THEN IF hasNativeItemRows(s)
              THEN selectNativeRowElement(s1, getFirstNativeRow(s1))
              ELSE s
     ELSE IF nextRow # origin THEN setSelectedFolderRow(s, nextRow)
     ELSE s

\* the body's capturing mousedown / focusin listener, target outside our rows
handleMouseDown(s) ==
  IF s.selectedFolderRow # NULL THEN setSelectedFolderRow(s, NULL) ELSE s

\* the capturing keydown listener: ArrowUp with the focus on native row k
handleKeyDown(s, k) ==
  IF Len(s.folderRows) = 0 THEN s
  ELSE IF ~isFirstNativeRow(s, k) THEN s
  ELSE setSelectedFolderRow(s, Len(s.folderRows))

\* ------------------------------------------- observation (history variables)
\* obs.mode names the family of properties a behaviour is observed for; only
\* the history variables of that family are kept up to date.
PendingDebounce(s) == {t \in s.timers : t.kind = "debounce"}

PendingRenderFrames(s) == {k \in 1..Len(s.frames) : s.frames[k].kind = "render"}

\* debounce timers and render frames that are armed
Chain(s) == Cardinality(PendingDebounce(s)) + Cardinality(PendingRenderFrames(s))

\* a call of scheduleRerender; s0 is the state it was made in
NoteCall(s0, s) ==
  IF s.obs.mode = "sched"
    THEN [s EXCEPT !.obs.burst = IF s0.obs.rendersSinceCall >= 1 \/ s0.obs.afterShutdown
                                   THEN 1
                                   ELSE IF @ < 2 THEN @ + 1 ELSE @,
                   !.obs.rendersSinceCall = 0,
                   !.obs.afterShutdown = FALSE,
                   !.obs.cancelled = "none"]
  ELSE IF s.obs.mode = "reentrant"
    THEN [s EXCEPT !.obs.inCycle = @ \/ s0.renderInFlight,
                   !.obs.reentries = IF s0.renderInFlight THEN @ + 1 ELSE @]
  ELSE IF s.obs.mode = "snapshot"
    THEN [s EXCEPT !.obs.triggerSel = s0.hostSelection]
  ELSE s

\* the start of a render cycle
NoteCycle(s) ==
  IF s.obs.mode = "sched"
    THEN [s EXCEPT !.obs.rendersSinceCall = IF @ < 2 THEN @ + 1 ELSE @,
                   !.obs.lateRender = @ \/ s.obs.afterShutdown]
  ELSE IF s.obs.mode = "reentrant"
    THEN [s EXCEPT !.obs.overlap = @ \/ s.renderInFlight, !.obs.inCycle = FALSE]
  ELSE IF s.obs.mode = "sources"
    THEN [s EXCEPT !.obs.navRenders = IF @ < 2 THEN @ + 1 ELSE @]
  ELSE IF s.obs.mode \in {"render", "host", "library"}
    THEN [s EXCEPT !.obs.prevRows = Len(s.folderRows)]
  ELSE IF s.obs.mode = "activate" /\ s.obs.inHandler
    THEN [s EXCEPT !.obs.handlerCycles = 1]
  ELSE IF s.obs.mode = "late"
    THEN [s EXCEPT !.obs.lateRender = @ \/ s.obs.afterShutdown]
  ELSE IF s.obs.mode = "patch"
    THEN [s EXCEPT !.obs.prevPatched = s.patched]
  ELSE IF s.obs.mode = "rows"
    THEN [s EXCEPT !.obs.prevSelected = s.selectedFolderRow]
  ELSE IF s.obs.mode = "trail"
    THEN LET forTarget == /\ s.obs.trail.live
                          /\ s.hostSelection.rowType = "collection"
                          /\ s.hostSelection.id = s.obs.trail.target
         IN [s EXCEPT !.obs.trail.rendered = forTarget,
                      !.obs.trail.live = @ /\ ~forTarget,
                      !.obs.visit = [from |-> IF s.navIndex >= 0
                                               THEN s.navHistory[s.navIndex + 1]
                                               ELSE NULL,
                                     shown |-> s.lastRenderedCollectionID,
                                     idle |-> s.pendingHistoryNavigations = <<>>]]
  ELSE IF s.obs.mode = "scroll"
    THEN [s EXCEPT !.obs.changed =
                      /\ s.hostSelection.rowType \in {"collection", "library"}
                      /\ getCurrentSelectionKey(s) # s.lastRenderedCollectionID,
                   !.obs.before.true = s.scrollTop]
  ELSE s

\* the render callback with handle f.id runs: rafHandle holds that handle
\* unless cancelScheduledFrame has cancelled it since it was requested
NoteRun(s, f) ==
  IF s.obs.mode = "window" /\ s.rafHandle # f.id
    THEN [s EXCEPT !.obs.ranCancelled = TRUE]
    ELSE s

\* the host itself has called startup or scheduleRerender
NoteHostCall(s) ==
  IF s.obs.mode = "late"
    THEN [s EXCEPT !.obs.afterShutdown = FALSE, !.obs.lateRender = FALSE]
    ELSE s

NoteNavigate(s) ==
  IF s.obs.mode = "sources"
    THEN [s EXCEPT !.obs.navRenders = 0, !.obs.interfered = FALSE, !.obs.reported = {}]
    ELSE s

NoteInterfere(s) ==
  IF s.obs.mode = "sources" THEN [s EXCEPT !.obs.interfered = TRUE] ELSE s

\* source `src` has looked at the selection; s0 is the state it found
NoteReport(s0, s, src) ==
  IF s.obs.mode = "sources"
    THEN [s EXCEPT !.obs.reported = @ \cup {src},
                   !.obs.needless = @ \/ (/\ getCurrentSelectionKey(s0)
                                               = getLastRenderedCollectionID(s0)
                                          /\ s.timers # s0.timers)]
    ELSE s

NoteShutdown(s0, s) ==
  LET s1 == NoteInterfere(s)
  IN IF s.obs.mode = "sched"
       THEN [s1 EXCEPT !.obs.afterShutdown = TRUE,
                       !.obs.cancelled =
                          IF PendingRenderFrames(s0) # {} THEN "frame"
                          ELSE IF PendingDebounce(s0) # {} THEN "timer"
                          ELSE "none"]
     ELSE IF s.obs.mode = "reentrant" THEN [s1 EXCEPT !.obs.inCycle = FALSE]
     ELSE IF s.obs.mode = "host" THEN [s1 EXCEPT !.obs.prevRows = Len(s0.folderRows)]
     ELSE IF s.obs.mode = "late"
       THEN [s1 EXCEPT !.obs.afterShutdown = TRUE, !.obs.lateRender = FALSE]
     ELSE s1

\* ------------------------------------------------------------ controller.ts
cancelScheduledFrame(s) ==
  IF s.rafHandle # NULL
    THEN [cancelFrame(s, s.rafHandle) EXCEPT !.rafHandle = NULL]
    ELSE s

\* faulty variant: arms the new timer without cancelling the pending timer and frame
scheduleRerender_NoCancel(s, delay) ==
  [setTimeout(s, "debounce", NULL) EXCEPT !.rerenderTimer = Least(FreeTimerIds(s))]

scheduleRerender(s, delay) ==
  LET s1 == IF s.rerenderTimer # NULL
              THEN [clearTimeout(s, s.rerenderTimer) EXCEPT !.rerenderTimer = NULL]
              ELSE s
      s2 == cancelScheduledFrame(s1)
  IN [setTimeout(s2, "debounce", NULL) EXCEPT !.rerenderTimer = Least(FreeTimerIds(s2))]

\* every call of scheduleRerender in the program goes through here
CallScheduleRerender(s, delay) ==
  LET s1 == NoteCall(s, scheduleRerender(s, delay))
  IN IF s.obs.mode = "activate" /\ s.obs.inHandler
       THEN [s1 EXCEPT !.obs.delays = Append(@, delay)]
       ELSE s1

\* the setTimeout callback of scheduleRerender
DebounceCallback(s) ==
  [requestNextFrame(s, "render", NULL) EXCEPT !.rafHandle = NextFrameHandle(s)]

\* faulty variant: the finally block clears the timer its handle names
RenderFrameFinally_ClearTimer(s) ==
  [cancelScheduledFrame(clearTimeout([s EXCEPT !.renderInFlight = FALSE], s.rerenderTimer))
     EXCEPT !.rerenderTimer = NULL]

\* the finally block of the frame callback
RenderFrameFinally(s) ==
  [cancelScheduledFrame([s EXCEPT !.renderInFlight = FALSE]) EXCEPT !.rerenderTimer = NULL]

\* what the host does on the stack of a render cycle: nothing (NULL), or a
\* call of scheduleRerender with the delay `reentry`
Reenter(s, reentry) ==
  IF reentry = NULL THEN s ELSE CallScheduleRerender(s, reentry)

\* faulty variant: the render call is not wrapped in try / catch / finally
RenderFrameCallback_Unguarded(s, reentry) ==
  LET s1 == Reenter(renderFolderRowsForCurrentCollection(
                      [NoteCycle(s) EXCEPT !.renderInFlight = TRUE]), reentry)
  IN IF s.renderInFlight THEN s
     ELSE IF s1.fault = "thrown" THEN s1
     ELSE RenderFrameFinally(s1)

\* the frame callback of scheduleRerender: try { render } catch {} finally {...}
RenderFrameCallback(s, reentry) ==
  LET s1 == Reenter(renderFolderRowsForCurrentCollection(
                      [NoteCycle(s) EXCEPT !.renderInFlight = TRUE]), reentry)
      caught == IF s1.fault = "thrown"
                  THEN [s1 EXCEPT !.fault = "none", !.obs.faulted = s.obs.mode = "fault"]
                  ELSE s1
  IN IF s.renderInFlight THEN s
     ELSE RenderFrameFinally(caught)

\* faulty variant: schedules whether or not the selection key has changed
maybeScheduleRerenderForCollection_Always(s, delay) == CallScheduleRerender(s, delay)

maybeScheduleRerenderForCollection(s, delay) ==
  IF getCurrentSelectionKey(s) # getLastRenderedCollectionID(s)
    THEN CallScheduleRerender(s, delay)
    ELSE s

\* runs the cleanup closures that are set and clears the interval that is set
teardownCollectionChangeListener(s) ==
  LET s1 == IF s.collectionSelectCleanup
              THEN [s EXCEPT !.hostHooks.listeners = @ - 1,
                             !.collectionSelectCleanup = FALSE]
              ELSE s
      s2 == IF s1.collectionSelectionRestore
              THEN [s1 EXCEPT !.hostHooks.select = s1.hostHooks.original,
                              !.hostHooks.zfePatched = FALSE,
                              !.collectionSelectionRestore = FALSE]
              ELSE s1
  IN IF s2.checkInterval
       THEN [s2 EXCEPT !.hostHooks.intervals = @ - 1, !.checkInterval = FALSE]
       ELSE s2

\* wraps selection.select once, unless it is wrapped or there is no selection
patchCollectionSelection(s) ==
  IF s.collectionSelectionRestore THEN s
  ELSE IF ~s.hostHooks.paneReady THEN s
  ELSE IF s.hostHooks.zfePatched THEN s
  ELSE [s EXCEPT !.hostHooks.original = s.hostHooks.select,
                 !.hostHooks.select = @ + 1,
                 !.hostHooks.zfePatched = TRUE,
                 !.collectionSelectionRestore = TRUE]

\* the rest of setupCollectionChangeListener: the listeners on the tree, if
\* the tree is found, and the 500 ms poll
ListenAndPoll(s) ==
  LET s1 == patchCollectionSelection(s)
      s2 == IF s1.hostHooks.paneReady
              THEN [s1 EXCEPT !.hostHooks.listeners = @ + 1,
                              !.collectionSelectCleanup = TRUE]
              ELSE s1
  IN [s2 EXCEPT !.hostHooks.intervals = @ + 1, !.checkInterval = TRUE]

\* faulty variant: sets up over whatever an earlier setup left
setupCollectionChangeListener_NoTeardown(s) == ListenAndPoll(s)

\* patches selection.select, listens to the tree, starts the 500 ms poll
setupCollectionChangeListener(s) == ListenAndPoll(teardownCollectionChangeListener(s))

\* faulty variant: clears the timer but leaves the frame request armed
shutdownFolderRows_NoFrameCancel(s) ==
  LET s1 == teardownWindowResizeListener(
              detachHeaderObservers(teardownScrollTopCompensation(removeFolderRows(s))))
      s2 == IF s1.rerenderTimer # NULL
              THEN [clearTimeout(s1, s1.rerenderTimer) EXCEPT !.rerenderTimer = NULL]
              ELSE s1
  IN [s2 EXCEPT !.renderInFlight = FALSE]

\* faulty variant: returns once it has removed mounted rows
shutdownFolderRows_EarlyReturn(s) ==
  LET s1 == teardownWindowResizeListener(
              detachHeaderObservers(teardownScrollTopCompensation(removeFolderRows(s))))
      s2 == IF s1.rerenderTimer # NULL
              THEN [clearTimeout(s1, s1.rerenderTimer) EXCEPT !.rerenderTimer = NULL]
              ELSE s1
  IN IF Len(s.folderRows) > 0 THEN removeFolderRows(s)
     ELSE [cancelScheduledFrame(s2) EXCEPT !.renderInFlight = FALSE]

shutdownFolderRows(s) ==
  LET s1 == teardownWindowResizeListener(
              detachHeaderObservers(teardownScrollTopCompensation(removeFolderRows(s))))
      s2 == IF s1.rerenderTimer # NULL
              THEN [clearTimeout(s1, s1.rerenderTimer) EXCEPT !.rerenderTimer = NULL]
              ELSE s1
  IN [cancelScheduledFrame(s2) EXCEPT !.renderInFlight = FALSE]

\* navigation.ts: navigateToCollection arms the 200 ms settle timer
navigateToCollection(s, collectionID) ==
  LET s1 == setTimeout(s, "navSettle", collectionID)
  IN IF s.obs.mode = "activate" /\ s.obs.inHandler
       THEN [s1 EXCEPT !.obs.navCalls = Append(@, collectionID)]
       ELSE s1

\* faulty variant: renders at once instead of asking the scheduler
activateFolderRow_RenderNow(s, subCol) ==
  RenderFrameCallback(navigateToCollection(s, subCol), NULL)

\* row.ondblclick and keydown Enter / Space of the row of subCol
activateFolderRow(s, subCol) ==
  CallScheduleRerender(navigateToCollection(s, subCol), ActivateDelay)

\* the host's selection.select(index), wrapped by patchCollectionSelection
SelectionSelect(s, sel) ==
  LET s1 == [s EXCEPT !.hostSelection = sel]
  IN IF s.collectionSelectionRestore
       THEN NoteReport(s1, maybeScheduleRerenderForCollection(s1, PatchedSelectDelay),
                       "select")
       ELSE s1

\* the settle timer's callback: the row is looked up in the tree and selected
NavSettleCallback(s, collectionID, found) ==
  IF ~found THEN s
  ELSE CallScheduleRerender(
         SelectionSelect(s, [rowType |-> "collection", id |-> collectionID]),
         SettleRerenderDelay)

\* ---- the window runs its animation-frame callbacks: all the callbacks that
\* are pending when the frame starts, in request order; the ones they request
\* wait for the next frame
FrameCallback(s, f, reentry) ==
  IF f.kind = "render" THEN RenderFrameCallback(NoteRun(s, f), reentry)
  ELSE IF f.kind = "measure"
    THEN measureExtraTopOffsetNow([s EXCEPT !.extraTopOffsetMeasureHandle = NULL])
  ELSE IF f.kind = "snapFirst"
    THEN requestNextFrame(setScrollerActualScroll(s, f.a, 0), "snapSecond", f.a)
  ELSE setScrollerActualScroll(s, f.a, 0)

RECURSIVE RunFrames(_, _, _)
RunFrames(s, queue, reentry) ==
  IF queue = <<>> THEN [s EXCEPT !.running = {}]
  ELSE LET f == Head(queue)
       IN IF \E k \in 1..Len(s.frames) : s.frames[k].id = f.id
            THEN RunFrames(FrameCallback(cancelAnimationFrame(s, f.id), f, reentry),
                           Tail(queue), reentry)
            ELSE RunFrames(s, Tail(queue), reentry)

RunAnimationFrame(s, reentry) ==
  RunFrames([s EXCEPT !.running = {s.frames[k].id : k \in 1..Len(s.frames)}],
            s.frames, reentry)

\* ================================================================ actions
TimerRoom(n) == Cardinality(FreeTimerIds(Cur)) >= n

FrameRoom(n) == Cardinality(FreeFrameIds(Cur)) >= n + Len(frames)

\* the history explored stays within MaxHistory entries (MaxTrail where the
\* back and forward steps are explored)
CanSelect(sel) ==
  sel.rowType = "collection" =>
    Len(pushToHistory(Cur, sel.id).navHistory)
      <= (IF obs.mode = "history" THEN MaxTrail
          ELSE IF obs.mode = "trail" THEN MaxVisits ELSE MaxHistory)

\* the steps a family of properties tells apart; the others are just "step"
Watched(mode) ==
  IF mode = "sched" THEN {"render", "frames", "shutdownFolderRows", "onShutdown"}
  ELSE IF mode = "shutdown" THEN {"shutdownFolderRows", "onShutdown"}
  ELSE IF mode = "sources" THEN {"render", "treeEvent", "poll"}
  ELSE IF mode = "offset" THEN {"setExtraTopOffset", "scroll"}
  ELSE IF mode = "drop" THEN {"dropCollection"}
  ELSE IF mode = "crumb" THEN {"dropCollection"}
  ELSE IF mode = "items" THEN {"itemDrop"}
  ELSE IF mode = "arrows" THEN {"render", "arrowRow", "arrowNative"}
  ELSE IF mode = "rows" THEN {"render", "selectRow", "shutdownFolderRows"}
  ELSE IF mode = "trail" THEN {"render", "history"}
  ELSE IF mode = "strip"
    THEN {"render", "poll", "navigate", "toggleMenu", "dismissMenu", "toggleStrip"}
  ELSE IF mode = "listener" THEN {"setup", "teardown"}
  ELSE IF mode = "host" THEN {"render", "replaceBody", "shutdownFolderRows", "onShutdown"}
  ELSE IF mode = "patch" THEN {"render", "shutdownFolderRows"}
  ELSE IF mode = "fault" THEN {"render", "frames"}
  ELSE IF mode = "header" THEN {"render", "headerResize"}
  ELSE IF mode = "activate" THEN {"render", "activate", "selectRow"}
  ELSE IF mode = "select" THEN {"render", "selectRow", "selectNative", "hostSelects"}
  ELSE {"render"}

\* the overflow menu is open, the rows of the current selection are rendered
\* and no render is owed: no timer, no frame request is pending
OpenMenuAtRest ==
  /\ navOverflowMenuCleanup /\ navStrip
  /\ getCurrentSelectionKey(Cur) = lastRenderedCollectionID
  /\ timers = {} /\ frames = <<>> /\ rerenderTimer = NULL /\ rafHandle = NULL

\* a handler starts with nothing recorded about its calls
Handler(s) ==
  [s EXCEPT !.obs.selectCall = FALSE, !.obs.cleared = FALSE,
            !.obs.hadNative = s.nativeSelection # {},
            !.obs.inHandler = TRUE, !.obs.navCalls = <<>>, !.obs.delays = <<>>,
            !.obs.handlerCycles = 0, !.obs.activated = NULL]

Done(s, name) ==
  Commit([s EXCEPT
            !.op = IF name \in Watched(s.obs.mode) THEN name ELSE "step",
            !.obs.inHandler = FALSE,
            !.obs.menuBefore = s.obs.mode = "strip" /\ OpenMenuAtRest,
            !.obs.storeCalls = IF name \in Watched(s.obs.mode) THEN @ ELSE <<>>,
            !.obs.itemsBefore = IF name \in Watched(s.obs.mode) THEN @ ELSE NoItems,
            !.obs.twice = /\ s.obs.mode = "shutdown"
                          /\ name = "shutdownFolderRows" /\ op = "shutdownFolderRows"])

\* hooks.ts onStartup: scheduleRerender(10); setupCollectionChangeListener()
Startup ==
  /\ ~checkInterval /\ TimerRoom(1)
  /\ Done(NoteHostCall(NoteInterfere(setupCollectionChangeListener(
                                       CallScheduleRerender(Cur, StartupDelay)))),
          "startup")

\* a collaborator calls the exported scheduleRerender (navigation.ts, hooks.ts)
ExternalSchedule ==
  /\ TimerRoom(1)
  /\ \E delay \in {ItemDropDelay, StartupDelay} :
       Done(NoteHostCall(NoteInterfere(CallScheduleRerender(Cur, delay))), "schedule")

\* the user (or the host) selects another row of the collection tree, through
\* selection.select or not
HostNavigate ==
  /\ TimerRoom(1)
  /\ \E sel \in Contexts \ {hostSelection}, viaSelect \in BOOLEAN :
       /\ CanSelect(sel)
       /\ Done(IF viaSelect
                 THEN SelectionSelect(NoteNavigate(Cur), sel)
                 ELSE [NoteNavigate(Cur) EXCEPT !.hostSelection = sel], "navigate")

\* "select" / "keyup" on the collections tree element
TreeEvent ==
  /\ collectionSelectCleanup /\ TimerRoom(1)
  /\ Done(NoteReport(Cur, maybeScheduleRerenderForCollection(Cur, TreeEventDelay), "tree"),
          "treeEvent")

\* try { ... } catch (_err) { /* ignored */ }
Ignored(s) == IF s.fault = "thrown" THEN [s EXCEPT !.fault = "none"] ELSE s

\* the callback of the 500 ms interval
PollCallback(s) ==
  Ignored(updateNavStrip(Ignored(maybeScheduleRerenderForCollection(s, PollDelay))))

\* the 500 ms interval
PollTick ==
  /\ checkInterval /\ TimerRoom(1)
  /\ Done(NoteReport(Cur, PollCallback(Cur), "poll"), "poll")

DebounceTimerFires ==
  /\ FrameRoom(1)
  /\ \E t \in timers :
       /\ t.kind = "debounce"
       /\ Done(DebounceCallback([Cur EXCEPT !.timers = @ \ {t}]), "debounceFired")

FrameTickWith(reentries) ==
  /\ frames # <<>> /\ FrameRoom(3) /\ TimerRoom(1)
  /\ \E reentry \in reentries :
       /\ reentry # NULL => PendingRenderFrames(Cur) # {} /\ obs.reentries < MaxReentry
       /\ Done(RunAnimationFrame(Cur, reentry),
               IF PendingRenderFrames(Cur) # {} THEN "render" ELSE "frames")

\* nothing calls scheduleRerender on the stack of a render cycle
FrameTick == FrameTickWith({NULL})

\* double click / Enter / Space on a mounted row:
\* navigateToCollection(subCol.id); rerenderTrigger(260)
RowActivate ==
  /\ TimerRoom(2)
  /\ Cardinality({t \in timers : t.kind = "navSettle"}) < MaxSettle
  /\ \E i \in 1..Len(folderRows) :
       /\ InRows(folderRows[i], bodyChildren)
       /\ Done(NoteInterfere(activateFolderRow(
                               [Handler(Cur) EXCEPT !.obs.activated = folderRows[i].coll],
                               folderRows[i].coll)), "activate")

NavSettleFires ==
  /\ TimerRoom(1)
  /\ \E t \in timers, found \in BOOLEAN :
       /\ t.kind = "navSettle"
       /\ found => CanSelect([rowType |-> "collection", id |-> t.a])
       /\ Done(NoteInterfere(NavSettleCallback(
                               NoteNavigate([Cur EXCEPT !.timers = @ \ {t}]), t.a, found)),
               "navSettled")

\* faulty variant: never steps to the first entry
canGo_PastFirst(s, delta) ==
  LET i == s.navIndex + delta
  IN i > 0 /\ i < Len(s.navHistory)

\* the back / forward buttons of the strip, Alt+Left / Alt+Right
canGo(s, delta) ==
  LET i == s.navIndex + delta
  IN i >= 0 /\ i < Len(s.navHistory)

navigateHistory(s, delta) ==
  IF ~canGo(s, delta) THEN s
  ELSE LET s1 == [s EXCEPT !.navIndex = @ + delta]
           id == s1.navHistory[s1.navIndex + 1]
           s2 == [s1 EXCEPT !.pendingHistoryNavigations = Append(@, id)]
       IN updateNavButtonsEnabled(
            CallScheduleRerender(navigateToCollection(s2, id), HistoryRerenderDelay))

\* the user selects one of the collections cs in the tree
HistoryVisitAmong(cs) ==
  /\ TimerRoom(1)
  /\ \E c \in cs :
       LET sel == [rowType |-> "collection", id |-> c]
       IN /\ sel # hostSelection /\ CanSelect(sel)
          /\ Done(SelectionSelect(Cur, sel), "navigate")

\* the user selects one of the first MaxTrail collections in the tree
HistoryVisit == HistoryVisitAmong(1..MaxTrail)

\* the step that was just made, and the history it was made on
NoteStep(s0, s, delta) ==
  IF s0.obs.mode = "trail"
    THEN [s EXCEPT !.obs.trail = [entries |-> s0.navHistory,
                                  index |-> s0.navIndex + delta,
                                  target |-> s0.navHistory[s0.navIndex + delta + 1],
                                  live |-> TRUE, rendered |-> FALSE]]
    ELSE s

HistoryStep ==
  /\ navStrip /\ TimerRoom(2)
  /\ Len(pendingHistoryNavigations) < MaxQueue
  /\ Cardinality({t \in timers : t.kind = "navSettle"})
       < (IF obs.mode = "trail" THEN MaxSettling ELSE MaxQueue)
  /\ \E delta \in {-1, 1} :
       /\ canGo(Cur, delta)
       /\ Done(NoteStep(Cur, navigateHistory(Cur, delta), delta), "history")

\* items dragged from the items pane are dropped on a mounted row: handleDrop
\* awaits moveItemsToCollection, which awaits the host's transaction
handleDrop(s, itemIDs, targetCollectionID, sourceCollectionID, host) ==
  IF itemIDs = {} THEN s
  ELSE moveItemsToCollection(s, itemIDs, targetCollectionID, sourceCollectionID, host)

\* a handler that may move items starts with no store call recorded
StoreHandler(s) ==
  [s EXCEPT !.obs.storeCalls = <<>>,
            !.obs.itemsBefore = IF StoreFollowed(s) THEN s.collectionItems ELSE @]

\* the items the items pane shows, which the user may drag: those of the
\* selected collection, or all at the library root
ShownItems(s) ==
  IF StoreFollowed(s) /\ s.hostSelection.rowType = "collection"
    THEN s.collectionItems[s.hostSelection.id]
    ELSE Items

ItemDrop ==
  /\ Cardinality(awaiting) < MaxSettle
  /\ \E i \in 1..Len(folderRows), ids \in SUBSET ShownItems(Cur), host \in HostShapes :
       /\ InRows(folderRows[i], bodyChildren)
       /\ ids # {}
       /\ Done(handleDrop(StoreHandler(Cur), ids, folderRows[i].coll,
                          folderRows[i].parent, host), "itemDrop")

\* the awaited calls are over: moveItemsToCollection calls rerenderTrigger(140)
ItemMoveContinues ==
  /\ TimerRoom(1)
  /\ \E w \in awaiting :
       /\ w.kind = "items"
       /\ Done(CallScheduleRerender([Cur EXCEPT !.awaiting = @ \ {w}], ItemDropDelay),
               "itemsMoved")

\* the exported shutdownFolderRows
ShutdownFolderRows ==
  Done(NoteShutdown(Cur, shutdownFolderRows(Cur)), "shutdownFolderRows")

\* hooks.ts onShutdown: shutdownFolderRows(); teardownCollectionChangeListener()
OnShutdown ==
  Done(NoteShutdown(Cur, teardownCollectionChangeListener(shutdownFolderRows(Cur))),
       "onShutdown")

\* ------------------------------------------------------------ specification
LibraryRow == [rowType |-> "library", id |-> NULL]

\* no back / forward step is followed
NoTrail ==
  [entries |-> <<>>, index |-> -1, target |-> NULL, live |-> FALSE, rendered |-> FALSE]

\* no item is filed / every item of the library is filed in one collection
InitialItems(mode) ==
  IF mode \in {"items", "crumb"}
    THEN {[c \in Containers |-> {i \in Items : f[i] = c}] : f \in [Items -> Containers]}
    ELSE {NoItems}

InitialObs(mode) ==
  [mode |-> mode, rendersSinceCall |-> 0, burst |-> 0, afterShutdown |-> FALSE,
   lateRender |-> FALSE, cancelled |-> "none", inCycle |-> FALSE, overlap |-> FALSE,
   reentries |-> 0,
   twice |-> FALSE, triggerSel |-> LibraryRow,
   navRenders |-> 0, interfered |-> TRUE, reported |-> {}, needless |-> FALSE,
   before |-> [logical |-> 0, true |-> 0, offset |-> 0], prevRows |-> 0,
   selectCall |-> FALSE, cleared |-> FALSE, hadNative |-> FALSE,
   reparented |-> FALSE, dropKind |-> "none",
   inHandler |-> FALSE, navCalls |-> <<>>, delays |-> <<>>, handlerCycles |-> 0,
   activated |-> NULL, faulted |-> FALSE, step |-> "none", changed |-> FALSE,
   ranCancelled |-> FALSE, prevPatched |-> {}, storeCalls |-> <<>>,
   itemsBefore |-> NoItems, drops |-> 0,
   key |-> [origin |-> 0, delta |-> 0], setups |-> 0,
   trail |-> NoTrail, prevSelected |-> NULL, exhausted |-> FALSE, menuBefore |-> FALSE,
   visit |-> [from |-> NULL, shown |-> NULL, idle |-> FALSE]]

\* The state once the modules are loaded, in a window that shows the library root.
InitWith(mode) ==
  /\ rerenderTimer = NULL /\ rafHandle = NULL /\ renderInFlight = FALSE
  /\ checkInterval = FALSE /\ collectionSelectCleanup = FALSE
  /\ collectionSelectionRestore = FALSE
  /\ folderRows = <<>> /\ selectedFolderRow = NULL /\ currentCollectionID = NULL
  /\ lastRenderedCollectionID = NULL
  /\ headerResizeObserver = FALSE /\ columnsMutationObserver = FALSE
  /\ folderRowsResizeObserver = FALSE /\ windowResizeCleanup = FALSE
  /\ itemsBodyCleanup = FALSE /\ extraTopOffset = 0
  /\ extraTopOffsetMeasureHandle = NULL /\ scrollCompensationState = NoComp
  /\ navHistory = <<>> /\ navIndex = -1 /\ pendingHistoryNavigations = <<>>
  /\ navStripEnabled = TRUE /\ navStrip = FALSE /\ navOverflowMenuCleanup = FALSE
  /\ timers = {} /\ frames = <<>> /\ running = {} /\ awaiting = {}
  /\ hostSelection = LibraryRow
  /\ itemsBody = 1 /\ headerCells = MaxCols /\ headerWidths = DefaultWidths(MaxCols)
  /\ currentGridTemplate = AutoTemplate /\ platform = "accessor"
  /\ scrollTop = 0 /\ patched = {}
  /\ bodyChildren = <<NativeRow(1), NativeRow(2)>>
  /\ parentID = [c \in Containers |-> IF c = 1 THEN NULL ELSE 1]
  /\ nativeSelection = {} /\ fault = "none"
  /\ windowReachable = TRUE /\ viewScroller = 1
  /\ collectionItems \in InitialItems(mode)
  /\ hostHooks = NoHooks
  /\ op = "init" /\ obs = InitialObs(mode)

Init == InitWith("sched")

\* The scheduler and its callers.  Row activation and the settle timer of
\* navigateToCollection act on the scheduler as a navigation followed by an
\* external call; they are part of NextShutdown below.
Next ==
  \/ Startup \/ ExternalSchedule \/ HostNavigate \/ TreeEvent \/ PollTick
  \/ DebounceTimerFires \/ FrameTick
  \/ ShutdownFolderRows \/ OnShutdown

Spec == Init /\ [][Next]_vars

InitShutdown == InitWith("shutdown")

NextShutdown == Next \/ RowActivate \/ NavSettleFires

SpecShutdown == InitShutdown /\ [][NextShutdown]_vars

\* A collaborator may call scheduleRerender on the stack of a render cycle.
FrameTickReentrant == FrameTickWith({NULL, ItemDropDelay})

InitReentrant == InitWith("reentrant")

NextReentrant ==
  \/ Startup \/ ExternalSchedule \/ HostNavigate \/ TreeEvent \/ PollTick
  \/ DebounceTimerFires \/ FrameTickReentrant
  \/ ShutdownFolderRows \/ OnShutdown

SpecReentrant == InitReentrant /\ [][NextReentrant]_vars

InitSnapshot == InitWith("snapshot")

SpecSnapshot == InitSnapshot /\ [][Next]_vars

InitSources == InitWith("sources")

SpecSources == InitSources /\ [][Next]_vars

\* ---- setExtraTopOffset on its own: compensation is attached to the items
\* body, which shows the row of the library root; the offset is the height last
\* measured and the true coordinate is wherever the host has scrolled to.
\* (The native setter stores the value written; the upper end of the scroll
\* range is not modelled.)
InitOffset ==
  \E layer \in {"accessor", "proxy"}, raw \in 0..MaxScroll, offset \in 0..MaxOffset :
    LET s0 == [headerCells |-> MaxCols, folderRows |-> <<>>, bodyChildren |-> <<>>,
               currentGridTemplate |-> AutoTemplate]
        row == buildFolderRow(applyGridTemplateFromHeader(s0, DefaultWidths(MaxCols)),
                              1, NULL)
    IN /\ rerenderTimer = NULL /\ rafHandle = NULL /\ renderInFlight = FALSE
       /\ checkInterval = FALSE /\ collectionSelectCleanup = FALSE
       /\ collectionSelectionRestore = FALSE
       /\ folderRows = <<row>> /\ selectedFolderRow = NULL /\ currentCollectionID = NULL
       /\ lastRenderedCollectionID = encodeLibraryContextID(userLibraryID)
       /\ headerResizeObserver = TRUE /\ columnsMutationObserver = TRUE
       /\ folderRowsResizeObserver = TRUE /\ windowResizeCleanup = TRUE
       /\ itemsBodyCleanup = TRUE /\ extraTopOffset = offset
       /\ extraTopOffsetMeasureHandle = NULL
       /\ scrollCompensationState = [scroller |-> 1, layer |-> layer]
       /\ navHistory = <<>> /\ navIndex = -1 /\ pendingHistoryNavigations = <<>>
       /\ navStripEnabled = TRUE /\ navStrip = TRUE /\ navOverflowMenuCleanup = FALSE
       /\ timers = {} /\ frames = <<>> /\ running = {} /\ awaiting = {}
       /\ hostSelection = LibraryRow
       /\ itemsBody = 1 /\ headerCells = MaxCols /\ headerWidths = DefaultWidths(MaxCols)
       /\ currentGridTemplate = row.template /\ platform = layer
       /\ scrollTop = raw /\ patched = {[el |-> 1, layer |-> layer]}
       /\ bodyChildren = <<row, NativeRow(1), NativeRow(2)>>
       /\ parentID = [c \in Containers |-> IF c = 1 THEN NULL ELSE 1]
       /\ nativeSelection = {} /\ fault = "none"
       /\ windowReachable = TRUE /\ viewScroller = 1
       /\ collectionItems = NoItems
       /\ hostHooks = NoHooks
       /\ op = "init" /\ obs = InitialObs("offset")

\* the host list view scrolls: it writes its scroll coordinate
HostScroll ==
  \E value \in 0..MaxScroll : Done(HostWriteScrollTop(Cur, value), "scroll")

\* a measurement (or a teardown) passes a new offset
SetExtraTopOffset ==
  \E value \in -1..MaxOffset :
    Done([setExtraTopOffset(Cur, value) EXCEPT
            !.obs.before = [logical |-> HostReadScrollTop(Cur), true |-> scrollTop,
                            offset |-> extraTopOffset]],
         "setExtraTopOffset")

NextOffset == HostScroll \/ SetExtraTopOffset

SpecOffset == InitOffset /\ [][NextOffset]_vars

\* ---- rendering against a host whose items pane changes: the host may show
\* another items body, or none, and its header may gain or lose columns (or
\* show none); the platform offers the accessor patch, the proxy, or neither.
\* Rows of the host are direct children of the items body.
InitLayers(mode) ==
  \E layer \in {"accessor", "proxy", "none"} :
    /\ rerenderTimer = NULL /\ rafHandle = NULL /\ renderInFlight = FALSE
    /\ checkInterval = FALSE /\ collectionSelectCleanup = FALSE
    /\ collectionSelectionRestore = FALSE
    /\ folderRows = <<>> /\ selectedFolderRow = NULL /\ currentCollectionID = NULL
    /\ lastRenderedCollectionID = NULL
    /\ headerResizeObserver = FALSE /\ columnsMutationObserver = FALSE
    /\ folderRowsResizeObserver = FALSE /\ windowResizeCleanup = FALSE
    /\ itemsBodyCleanup = FALSE /\ extraTopOffset = 0
    /\ extraTopOffsetMeasureHandle = NULL /\ scrollCompensationState = NoComp
    /\ navHistory = <<>> /\ navIndex = -1 /\ pendingHistoryNavigations = <<>>
    /\ navStripEnabled = TRUE /\ navStrip = FALSE /\ navOverflowMenuCleanup = FALSE
    /\ timers = {} /\ frames = <<>> /\ running = {} /\ awaiting = {}
    /\ hostSelection = LibraryRow
    /\ itemsBody = 1 /\ headerCells = MaxCols /\ headerWidths = DefaultWidths(MaxCols)
    /\ currentGridTemplate = AutoTemplate /\ platform = layer
    /\ scrollTop = 0 /\ patched = {}
    /\ bodyChildren = <<NativeRow(1), NativeRow(2)>>
    /\ parentID = [c \in Containers |-> IF c = 1 THEN NULL ELSE 1]
    /\ nativeSelection = {} /\ fault = "none"
    /\ windowReachable = TRUE /\ viewScroller = 1
    /\ collectionItems = NoItems
    /\ hostHooks = NoHooks
    /\ op = "init" /\ obs = InitialObs(mode)

InitRender == InitLayers("render")

\* the host rebuilds its items list: another body element, or none
\* (when it shows another element, the fields of its items view hold that
\* element, and no proxy of ours)
HostReplacesBody ==
  \E el \in ({NULL} \cup Elements) \ {itemsBody} :
    LET assigns == el # NULL /\ el # viewScroller
    IN Done([Cur EXCEPT !.itemsBody = el,
                        !.bodyChildren = IF el = NULL THEN <<>>
                                         ELSE <<NativeRow(1), NativeRow(2)>>,
                        !.viewScroller = IF assigns THEN el ELSE @,
                        !.patched = IF assigns THEN {q \in @ : q.layer # "proxy"} ELSE @,
                        !.scrollTop = 0], "replaceBody")

\* the onChange callback renderFolderRows gives attachHeaderObservers
HeaderObserverCallback(s) ==
  scheduleExtraTopOffsetMeasure(applyGridTemplateFromHeader(s, getHeaderCellsFrom(s)))

\* the host adds or removes header columns; the observers, if attached, call back
HeaderChange ==
  /\ FrameRoom(1)
  /\ \E n \in (0..MaxCols) \ {headerCells} :
       LET s1 == [Cur EXCEPT !.headerCells = n, !.headerWidths = DefaultWidths(n)]
       IN Done(IF columnsMutationObserver THEN HeaderObserverCallback(s1) ELSE s1,
               "headerChange")

\* a render cycle runs: the debounce timer of scheduleRerender has fired (the
\* stages before it are in specification Spec) and the window runs its next
\* frame, the render frame last
RenderCycle ==
  /\ FrameRoom(4)
  /\ Done(RunAnimationFrame(DebounceCallback(Cur), NULL), "render")

NextRender ==
  \/ HostNavigate \/ RenderCycle \/ FrameTick \/ HostReplacesBody \/ HeaderChange

SpecRender == InitRender /\ [][NextRender]_vars

\* ---- selection of rows: the rows of the library root (or of a collection)
\* are mounted by render cycles; the user clicks rows, moves with the arrow
\* keys, presses the mouse on rows of the host, and the host changes its own
\* items selection (select all, selectItem, a search that reselects...)
InitSelect == InitWith("select")

\* the row (or the native row) and the direction of the key pressed
NoteKey(s, origin, delta) ==
  IF s.obs.mode = "arrows"
    THEN [s EXCEPT !.obs.key = [origin |-> origin, delta |-> delta]]
    ELSE s

\* row.onclick
RowClick ==
  \E i \in 1..Len(folderRows) :
    /\ InRows(folderRows[i], bodyChildren)
    /\ Done(setSelectedFolderRow(Handler(Cur), i), "selectRow")

\* keydown ArrowDown / ArrowUp on a row
RowArrowKey ==
  \E i \in 1..Len(folderRows), delta \in {-1, 1} :
    /\ InRows(folderRows[i], bodyChildren)
    /\ Done(handleFolderRowArrowNavigation(NoteKey(Handler(Cur), i, delta), delta, i),
            IF obs.mode = "arrows" THEN "arrowRow" ELSE "selectRow")

\* keydown ArrowUp with the focus on a row of the host
BodyArrowUp ==
  /\ itemsBodyCleanup
  /\ \E j \in 1..Len(bodyChildren) :
       /\ isNativeItemRow(bodyChildren[j])
       /\ Done(handleKeyDown(NoteKey(Handler(Cur), bodyChildren[j].coll, -1),
                             bodyChildren[j].coll),
               IF obs.mode = "arrows" THEN "arrowNative" ELSE "selectRow")

\* the user presses the mouse on a row of the host: our capturing listener runs
\* first (while attached), then the host selects the row
NativeMouseDown ==
  \E j \in 1..Len(bodyChildren) :
    /\ isNativeItemRow(bodyChildren[j])
    /\ Done(selectNativeRowElement(
              IF itemsBodyCleanup THEN handleMouseDown(Handler(Cur)) ELSE Handler(Cur),
              bodyChildren[j].coll), "selectNative")

\* the host changes its items selection by itself; no listener of ours runs
HostSelectsItems ==
  \E sel \in SUBSET {bodyChildren[j].coll : j \in {i \in 1..Len(bodyChildren) :
                                                    isNativeItemRow(bodyChildren[i])}} :
    /\ sel # nativeSelection
    /\ Done([Handler(Cur) EXCEPT !.nativeSelection = sel], "hostSelects")

\* the list of the host comes to show n items (none, for a collection that
\* holds collections only); our rows stay where they are
HostListsItems ==
  \E n \in 0..MaxNative :
    /\ n # Len(SelectSeq(bodyChildren, isNativeItemRow))
    /\ itemsBody # NULL
    /\ Done([Handler(Cur) EXCEPT
               !.bodyChildren = SelectSeq(@, LAMBDA r : ~isNativeItemRow(r))
                                  \o [k \in 1..n |-> NativeRow(k)],
               !.nativeSelection = @ \cap (1..n)], "hostLists")

NextSelect ==
  \/ HostNavigate \/ RenderCycle \/ FrameTick
  \/ RowClick \/ RowArrowKey \/ BodyArrowUp \/ NativeMouseDown \/ HostSelectsItems

SpecSelect == InitSelect /\ [][NextSelect]_vars

\* ---- the place of the rows in the body: the host's list shows more or fewer
\* items and may keep a spacer in front of its rows
HostPadsBody ==
  /\ itemsBody # NULL
  /\ Done([Cur EXCEPT
             !.bodyChildren = IF \E k \in 1..Len(@) : @[k] = Spacer
                                THEN SelectSeq(@, LAMBDA r : r # Spacer)
                                ELSE <<Spacer>> \o @], "hostPads")

InitBlock == InitWith("block")

NextBlock ==
  \/ HostNavigate \/ RenderCycle \/ FrameTick \/ HostListsItems \/ HostPadsBody

SpecBlock == InitBlock /\ [][NextBlock]_vars

\* ---- arrow keys: as above, in a list whose items come and go
InitArrows == InitWith("arrows")

NextArrows ==
  \/ HostNavigate \/ RenderCycle \/ FrameTick
  \/ RowClick \/ RowArrowKey \/ BodyArrowUp \/ NativeMouseDown \/ HostListsItems

SpecArrows == InitArrows /\ [][NextArrows]_vars

\* ---- collections dragged onto breadcrumbs: the strip shows a crumb for every
\* collection on the path of the selection; any collection of the tree may be
\* dragged onto one
InitDrop == InitWith("drop")

\* how target t lies relative to the dragged collection x in state s
DropKind(s, x, t) ==
  IF t = x THEN "self"
  ELSE IF s.parentID[t] = x THEN "child"
  ELSE IF x \in CollectionChain(s, s.parentID[t], Cardinality(Containers)) THEN "deeper"
  ELSE "apart"

\* the crumb's drop handler, with a collection in the drag data
DropCollection ==
  /\ navStrip
  /\ \E x \in Containers, t \in getPathSegments(Cur), viaMover \in BOOLEAN,
        host \in HostShapes :
       /\ Cardinality(awaiting) < MaxSettle
       /\ obs.mode = "crumb" => obs.drops < MaxDrops
       /\ Done(handleCrumbDrop([StoreHandler(Cur) EXCEPT
                                  !.obs.drops = IF obs.mode = "crumb" THEN @ + 1 ELSE @,
                                  !.obs.reparented = FALSE,
                                  !.obs.dropKind = DropKind(Cur, x, t)],
                               x, t, viaMover, host), "dropCollection")

\* moveCollectionToParent after its await: the tree is refreshed and a render
\* requested (and the body scrolled to the top soon, when the move was saved here)
MoveContinues ==
  /\ TimerRoom(2)
  /\ Cardinality({tm \in timers : tm.kind = "scrollSoon"}) < MaxSettle
  /\ \E w \in awaiting :
       /\ w.kind \in {"moved", "saved"}
       /\ LET s1 == CallScheduleRerender([Cur EXCEPT !.awaiting = @ \ {w}],
                                         MoveRerenderDelay)
          IN Done(IF w.kind = "saved" THEN scrollItemsBodyToTopSoon(s1) ELSE s1,
                  "moveContinues")

ScrollSoonFires ==
  \E tm \in timers :
    /\ tm.kind = "scrollSoon"
    /\ Done(ScrollSoonCallback([Cur EXCEPT !.timers = @ \ {tm}]), "scrollSoon")

NextDrop ==
  \/ Startup \/ HostNavigate \/ DebounceTimerFires \/ FrameTick
  \/ DropCollection \/ MoveContinues \/ ScrollSoonFires \/ ItemMoveContinues

SpecDrop == InitDrop /\ [][NextDrop]_vars

\* ---- items dragged from the items pane onto mounted rows: the items of the
\* library are filed in the collections in any way
InitItems == InitWith("items")

NextItems ==
  \/ Startup \/ HostNavigate \/ DebounceTimerFires \/ FrameTick
  \/ ItemDrop \/ ItemMoveContinues

SpecItems == InitItems /\ [][NextItems]_vars

\* ---- collections dragged onto breadcrumbs of a library whose items are filed
\* in the collections in any way
InitCrumb == InitWith("crumb")

NextCrumb ==
  \/ Startup \/ HostNavigate \/ DebounceTimerFires \/ FrameTick
  \/ DropCollection \/ MoveContinues \/ ScrollSoonFires \/ ItemMoveContinues

SpecCrumb == InitCrumb /\ [][NextCrumb]_vars

\* ---- activation of rows: rows are mounted by render cycles, the user clicks
\* and activates them, and the settle timer of navigateToCollection selects
\* the collection in the tree
InitActivate == InitWith("activate")

NextActivate ==
  \/ Startup \/ HostNavigate \/ DebounceTimerFires \/ FrameTick
  \/ RowClick \/ RowActivate \/ NavSettleFires

SpecActivate == InitActivate /\ [][NextActivate]_vars

\* ---- the header's columns are resized while rows are mounted (one of them
\* may be selected)
InitHeader == InitWith("header")

\* widths, in half pixels, the user may drag a column to: 30.5, 120 and 150.5 px
ResizedWidths == {61, 240, 301}

\* the host lays the header cells out anew; the observers, if attached, call back
HeaderResize ==
  /\ FrameRoom(1)
  /\ \E w \in [1..headerCells -> ResizedWidths] :
       /\ w # headerWidths
       /\ LET s1 == [Cur EXCEPT !.headerWidths = w]
          IN Done(IF headerResizeObserver THEN HeaderObserverCallback(s1) ELSE s1,
                  "headerResize")

NextHeader ==
  \/ HostNavigate \/ RenderCycle \/ FrameTick \/ RowClick \/ HeaderResize

SpecHeader == InitHeader /\ [][NextHeader]_vars

\* ---- render cycles in which a DOM or host call may throw
InitFault == InitWith("fault")

\* the window runs a frame; in it, the call of step f throws (of no step, for
\* f = "none")
FrameTickFaulty ==
  /\ frames # <<>> /\ FrameRoom(3) /\ TimerRoom(1)
  /\ \E f \in Faults \cup {"none"} :
       LET s1 == RunAnimationFrame([Cur EXCEPT !.fault = f, !.obs.step = f], NULL)
       IN Done([s1 EXCEPT !.fault = IF @ = "thrown" THEN @ ELSE "none"],
               IF PendingRenderFrames(Cur) # {} THEN "render" ELSE "frames")

NextFault ==
  \/ Startup \/ ExternalSchedule \/ HostNavigate \/ DebounceTimerFires
  \/ FrameTickFaulty

SpecFault == InitFault /\ [][NextFault]_vars

\* ---- the nodes of the host: render cycles, teardowns and shutdowns run while
\* the host shows, replaces and hides its items body
InitHost == InitWith("host")

NextHost ==
  \/ HostNavigate \/ RenderCycle \/ FrameTick \/ HostReplacesBody
  \/ ShutdownFolderRows \/ OnShutdown

SpecHost == InitHost /\ [][NextHost]_vars

\* ---- back and forward through the history
InitHistory == InitWith("history")

NextHistory ==
  \/ Startup \/ HistoryVisit \/ HistoryStep \/ NavSettleFires
  \/ PollTick \/ DebounceTimerFires \/ FrameTick

SpecHistory == InitHistory /\ [][NextHistory]_vars

\* navigation has settled: no timer and no frame is pending, no cycle is owed
\* or running, and the 500 ms poll finds nothing to do; only the user can make
\* the next change
Settled ==
  /\ timers = {} /\ frames = <<>> /\ rerenderTimer = NULL /\ rafHandle = NULL
  /\ ~renderInFlight
  /\ updateNavStrip(maybeScheduleRerenderForCollection(Cur, PollDelay)) = Cur

\* ---- callbacks that outlive the shutdown: the settle timer of a row
\* activation and the continuation of an item drop
InitLate == InitWith("late")

NextLate ==
  \/ Startup \/ ExternalSchedule \/ HostNavigate \/ DebounceTimerFires \/ FrameTick
  \/ RowActivate \/ NavSettleFires \/ ItemDrop \/ ItemMoveContinues \/ OnShutdown

SpecLate == InitLate /\ [][NextLate]_vars

\* ---- the scroll reset: the host scrolls its list and the user navigates
\* between render cycles
InitScroll == InitWith("scroll")

NextScroll == HostNavigate \/ HostScroll \/ RenderCycle \/ FrameTick

SpecScroll == InitScroll /\ [][NextScroll]_vars

\* ---- a main window that comes and goes: Zotero.getMainWindow() returns the
\* window, or nothing while the window is closed or not yet loaded
InitWindow == InitWith("window")

WindowChange ==
  Done([Cur EXCEPT !.windowReachable = ~@], "windowChange")

\* a timer that stands for a frame callback fires
FallbackTimerFires ==
  /\ FrameRoom(3) /\ TimerRoom(2)
  /\ \E t \in timers :
       /\ t.kind \in FallbackKinds
       /\ Done(FrameCallback([Cur EXCEPT !.timers = @ \ {t}],
                             [id |-> t.id, kind |-> FrameKind(t.kind), a |-> t.a], NULL),
               IF t.kind = "fbRender" THEN "render" ELSE "frames")

NextWindow ==
  \/ (Cardinality(timers) + Len(frames) <= MaxBacklog /\ ExternalSchedule)
  \/ DebounceTimerFires
  \/ (windowReachable /\ FrameTick) \/ FallbackTimerFires \/ WindowChange

SpecWindow == InitWindow /\ [][NextWindow]_vars

\* ---- the scroll patch over a host that replaces its items body, on each
\* kind of platform
InitPatch == InitLayers("patch")

NextPatch ==
  \/ HostNavigate \/ RenderCycle \/ FrameTick \/ HostReplacesBody \/ ShutdownFolderRows

SpecPatch == InitPatch /\ [][NextPatch]_vars

\* ---- contexts without a collection: the library row, a row of another kind,
\* and a library row whose library id no lookup resolves
InitLibrary == InitWith("library")

\* the library row of a host where getActiveLibraryID finds no id: none on the
\* row, none from the pane, no Zotero.Libraries.userLibraryID
UnknownLibraryRow == [rowType |-> "libraryNoID", id |-> NULL]

\* the user selects the library row while the host resolves no library id
HostNavigateNoLibrary ==
  /\ TimerRoom(1)
  /\ hostSelection # UnknownLibraryRow
  /\ Done([NoteNavigate(Cur) EXCEPT !.hostSelection = UnknownLibraryRow], "navigate")

NextLibrary ==
  \/ HostNavigate \/ HostNavigateNoLibrary \/ RenderCycle \/ FrameTick
  \/ HostReplacesBody

SpecLibrary == InitLibrary /\ [][NextLibrary]_vars

\* ---- the change listener: set up and torn down any number of times, in any
\* order, while the pane and its collections tree come and go
InitListener == InitWith("listener")

\* a caller (hooks.ts onStartup) sets the listener up
SetupListener ==
  Done([setupCollectionChangeListener(Cur) EXCEPT
          !.obs.setups = IF @ < 2 THEN @ + 1 ELSE @], "setup")

\* a caller (hooks.ts onShutdown) tears the listener down
TeardownListener == Done(teardownCollectionChangeListener(Cur), "teardown")

\* the main window, with the pane and the tree, closes or opens
HostPaneChange == Done([Cur EXCEPT !.hostHooks.paneReady = ~@], "paneChange")

NextListener ==
  \/ SetupListener \/ TeardownListener \/ HostPaneChange
  \/ HostNavigate \/ TreeEvent \/ PollTick \/ DebounceTimerFires \/ FrameTick

SpecListener == InitListener /\ [][NextListener]_vars

\* ---- the history trail: visits of any collection, back and forward steps,
\* with up to MaxVisits entries
InitTrail == InitWith("trail")

TrailVisit == HistoryVisitAmong(Containers)

NextTrail ==
  \/ Startup \/ TrailVisit \/ HistoryStep \/ NavSettleFires
  \/ PollTick \/ DebounceTimerFires \/ FrameTick

SpecTrail == InitTrail /\ [][NextTrail]_vars

\* ---- the navigation strip: the poll and the toggle of the strip run while
\* the pane gets and loses its items view
InitStrip == InitWith("strip")

\* the pane gets its items view (with a root element), or loses it; a strip
\* that is mounted stays in the document
HostItemsViewChange ==
  Done([Cur EXCEPT !.hostHooks.itemsRoot = ~@], "itemsViewChange")

\* the menu command toggles the strip: setNavStripEnabled(!isNavStripEnabled());
\* what updateNavStrip throws goes to the host's command dispatcher
setNavStripEnabled(s, value) ==
  IF s.navStripEnabled = value THEN s
  ELSE LET s1 == [s EXCEPT !.navStripEnabled = value]
       IN IF ~value THEN removeNavStrip(s1) ELSE updateNavStrip(s1)

ToggleNavStrip ==
  Done(Ignored(setNavStripEnabled(Cur, ~navStripEnabled)), "toggleStrip")

\* renders a floating menu of the hidden breadcrumb segments
openBreadcrumbOverflowMenu(s) ==
  [closeBreadcrumbOverflowMenu(s) EXCEPT !.navOverflowMenuCleanup = TRUE]

\* the click handler of the ellipsis the breadcrumbs show
toggleBreadcrumbOverflowMenu(s) ==
  IF s.navOverflowMenuCleanup THEN closeBreadcrumbOverflowMenu(s)
  ELSE openBreadcrumbOverflowMenu(s)

\* the breadcrumbs of the rendered collection do not fit the strip and show
\* an ellipsis; the user clicks it
ToggleOverflowMenu ==
  /\ navStrip /\ hostSelection.rowType = "collection"
  /\ getCurrentSelectionKey(Cur) = lastRenderedCollectionID
  /\ Done(toggleBreadcrumbOverflowMenu(Cur), "toggleMenu")

\* Escape, or a pointer press or a context menu outside the menu and its anchor
DismissMenu ==
  /\ navOverflowMenuCleanup
  /\ Done(closeBreadcrumbOverflowMenu(Cur), "dismissMenu")

NextStrip ==
  \/ Startup \/ HostNavigate \/ PollTick \/ DebounceTimerFires \/ FrameTick
  \/ HostItemsViewChange \/ ToggleNavStrip \/ ToggleOverflowMenu \/ DismissMenu

SpecStrip == InitStrip /\ [][NextStrip]_vars

\* ---- the selected row: clicks and arrow keys on mounted rows, between
\* render cycles and shutdowns
InitRows == InitWith("rows")

NextRows ==
  \/ HostNavigate \/ RenderCycle \/ FrameTick \/ ShutdownFolderRows
  \/ RowClick \/ RowArrowKey \/ BodyArrowUp \/ NativeMouseDown

SpecRows == InitRows /\ [][NextRows]_vars

\* ================================================================ properties
\* C1: after a burst of scheduleRerender calls, each made before the render
\* armed by the previous one has run, exactly one render cycle executes: while
\* the render of the burst has not run exactly one debounce timer or render
\* frame is armed (the one of the last call), once it has run none is armed,
\* and never more than one cycle runs after the last call.
C1_OneRenderPerBurst ==
  /\ obs.rendersSinceCall <= 1
  /\ Chain(Cur) = IF obs.burst >= 1 /\ obs.rendersSinceCall = 0 /\ ~obs.afterShutdown
                    THEN 1 ELSE 0

\* a burst of two or more calls has been settled by its render
C1_BurstSettled == op = "render" /\ obs.burst = 2 /\ obs.rendersSinceCall = 1

\* C2: at most one render cycle is in flight: no cycle starts while
\* renderInFlight is true, no cycle is left in flight between macrotasks, and a
\* scheduleRerender call made on the stack of a cycle starts no nested cycle but
\* leaves a debounce timer (later its frame) armed until the next cycle starts
\* or shutdown cancels it.
C2_OneCycleInFlight ==
  /\ ~obs.overlap
  /\ ~renderInFlight
  /\ obs.inCycle => Chain(Cur) >= 1

\* a cycle has started after a call made on the stack of an earlier cycle
C2_CapturedTriggerRendered == op = "render" /\ obs.reentries >= 1 /\ ~obs.inCycle

\* the children the store lists for a context of the tree
ExpectedChildren(sel) ==
  IF sel.rowType = "collection" THEN getByParent(Cur, sel.id)
  ELSE IF sel.rowType = "library" THEN getByLibraryTopLevel(Cur)
  ELSE <<>>

RowCollections == [i \in 1..Len(folderRows) |-> folderRows[i].coll]

\* C3: a render cycle uses the selection that is current when its frame
\* callback runs: when the cycle has run, lastRenderedCollectionID is the key of
\* the host's current selection and the rows list that selection's children,
\* whatever was selected when scheduleRerender was called.
C3_RenderReadsCurrentSelection ==
  op = "render" =>
    /\ lastRenderedCollectionID = computeSelectionContextID(hostSelection)
    /\ RowCollections = ExpectedChildren(hostSelection)

\* a cycle has run after the selection changed from the one current at the call
C3_SelectionChangedBeforeRender ==
  /\ op = "render" /\ Len(folderRows) > 0
  /\ computeSelectionContextID(obs.triggerSel) # computeSelectionContextID(hostSelection)

\* C4: the three change-detection sources call scheduleRerender only when the
\* current selection key differs from lastRenderedCollectionID; so, as long as
\* nothing but the sources has called the scheduler since the last navigation,
\* at most one cycle runs for it, a reported navigation that is not rendered
\* yet has exactly one render armed, and once the cycle has run the keys agree
\* and nothing is armed, whichever sources fire afterwards.
C4_OneRenderPerNavigation ==
  /\ ~obs.needless
  /\ ~obs.interfered =>
       /\ obs.navRenders <= 1
       /\ obs.navRenders = 1 =>
            /\ Chain(Cur) = 0
            /\ getCurrentSelectionKey(Cur) = getLastRenderedCollectionID(Cur)
       /\ (obs.navRenders = 0 /\ obs.reported # {}) =>
            \/ Chain(Cur) = 1
            \/ getCurrentSelectionKey(Cur) = getLastRenderedCollectionID(Cur)

\* all three sources have reported a navigation, its cycle has run, and a
\* source has just fired again
C4_SourceFiresAfterCycle ==
  /\ op \in {"treeEvent", "poll"} /\ ~obs.interfered
  /\ obs.navRenders = 1 /\ obs.reported = {"select", "tree", "poll"}

\* C5: once shutdown has returned, no timer and no animation-frame callback of
\* this system is pending and no scroll accessor or reference is patched.
C5_NothingLeftAfterShutdown ==
  op \in {"shutdownFolderRows", "onShutdown"} =>
    timers = {} /\ frames = <<>> /\ patched = {}

\* the module state shutdownFolderRows acts on, with the host's event loop and DOM
ProgramState == [Cur EXCEPT !.op = "", !.obs = InitialObs("")]

\* C6: shutdownFolderRows is idempotent: a second call right after the first
\* leaves rows, selection, offset, compensation, observers, timer and frame
\* handles, pending callbacks and the in-flight guard exactly as the first left
\* them.
C6_ShutdownIdempotent ==
  [][(op = "shutdownFolderRows" /\ op' = "shutdownFolderRows")
       => ProgramState' = ProgramState]_vars

\* shutdownFolderRows has been called twice in a row
C6_ShutdownTwice == obs.twice /\ op = "shutdownFolderRows"

\* C7: a render armed before shutdown never runs after it: shutdown leaves no
\* debounce timer and no render frame armed, both handles null and
\* renderInFlight false, and no cycle starts until scheduleRerender is called
\* again.
C7_NoRenderAfterShutdown ==
  /\ ~obs.lateRender
  /\ obs.afterShutdown =>
       /\ Chain(Cur) = 0
       /\ rerenderTimer = NULL /\ rafHandle = NULL
       /\ ~renderInFlight

\* shutdown cancelled a render whose timer had fired and whose frame was
\* pending, and the window has run a frame since
C7_FrameStageCancelled ==
  op = "frames" /\ obs.afterShutdown /\ obs.cancelled = "frame"

\* C8: while compensation is active, setExtraTopOffset leaves the logical
\* scroll coordinate the host reads through the patched accessor or the proxy
\* unchanged, for every true coordinate and every old and new offset: the true
\* coordinate moves by new - old (and stops at 0).
C8_LogicalScrollUnchanged ==
  op = "setExtraTopOffset" =>
    /\ HostReadScrollTop(Cur) = obs.before.logical
    /\ scrollTop = Max(0, obs.before.true + (extraTopOffset - obs.before.offset))

\* the offset has changed under a list that was scrolled
C8_OffsetChangedWhileScrolled ==
  /\ op = "setExtraTopOffset" /\ scrollCompensationState # NoComp
  /\ extraTopOffset # obs.before.offset /\ obs.before.logical > 0

\* a cycle has just rendered a collection or the library root
RenderedResolved == op = "render" /\ hostSelection.rowType \in {"collection", "library"}

\* the synthetic rows among the children of the items body
MountedRows == SelectSeq(bodyChildren, LAMBDA n : n.zfe)

C10_EmptyContainerTearsDown ==
  (RenderedResolved /\ Len(ExpectedChildren(hostSelection)) = 0) =>
    /\ folderRows = <<>> /\ MountedRows = <<>>
    /\ scrollCompensationState = NoComp /\ patched = {}
    /\ extraTopOffset = 0

\* C11: every handler that calls setSelectedFolderRow with a row (click, arrow
\* navigation between rows, ArrowUp from the first native row) invokes the
\* clear method of the host's items selection, in any state; here, in the
\* states where the host has rows selected.
C11_SelectClearsNative ==
  (op = "selectRow" /\ obs.selectCall /\ obs.hadNative) => obs.cleared

\* C12: a synthetic row and a native row are never selected at the same time.
C12_SelectionsExclusive ==
  /\ selectedFolderRow \in {NULL} \cup (1..Len(folderRows))
  /\ selectedFolderRow # NULL => nativeSelection = {}

\* C13: a collection dropped on itself or on one of its descendants is not
\* reparented, and the parent relation stays acyclic: no collection is on its
\* own chain of ancestors.
C13_DropsKeepHierarchyAcyclic ==
  /\ \A c \in Containers :
       c \notin CollectionChain(Cur, parentID[c], Cardinality(Containers))
  /\ (op = "dropCollection" /\ obs.dropKind \in {"self", "child", "deeper"})
       => ~obs.reparented

\* a collection has been dropped on a descendant that is not its child, after
\* an earlier drop has reparented a collection
C13_DroppedOnDeepDescendant ==
  /\ op = "dropCollection" /\ obs.dropKind = "deeper"
  /\ \E c \in Containers : parentID[c] \notin {NULL, 1}

C15_HeaderResizeRestylesRows ==
  [][(op' = "headerResize" /\ headerResizeObserver) =>
       /\ currentGridTemplate' =
            [unit |-> "px",
             tracks |-> [i \in 1..headerCells' |->
                           IF headerWidths'[i] < 2 * MinTrackWidth - 1
                             THEN MinTrackWidth
                             ELSE (headerWidths'[i] + 1) \div 2]]
       /\ Len(folderRows') = Len(folderRows)
       /\ \A i \in 1..Len(folderRows) :
            folderRows'[i] = [folderRows[i] EXCEPT !.template = currentGridTemplate']
       /\ Len(bodyChildren') = Len(bodyChildren)
       /\ \A i \in 1..Len(bodyChildren) :
            /\ bodyChildren'[i].zfe = bodyChildren[i].zfe
            /\ bodyChildren'[i].coll = bodyChildren[i].coll
            /\ bodyChildren[i].zfe => InRows(bodyChildren'[i], folderRows')
       /\ selectedFolderRow' = selectedFolderRow
       /\ lastRenderedCollectionID' = lastRenderedCollectionID
       /\ timers' = timers /\ rerenderTimer' = rerenderTimer /\ rafHandle' = rafHandle
       /\ PendingRenderFrames(Cur)' = PendingRenderFrames(Cur)
       /\ renderInFlight' = renderInFlight]_vars

\* two rows are mounted, the second is selected, and a resize has given them
\* the template "40px 151px"
C15_ResizedUnderSelectedRow ==
  /\ op = "headerResize" /\ headerResizeObserver
  /\ Len(folderRows) = 2 /\ MountedRows = folderRows /\ selectedFolderRow = 2
  /\ currentGridTemplate = [unit |-> "px", tracks |-> <<40, 151>>]
  /\ \A i \in 1..2 : folderRows[i].template = currentGridTemplate

\* C16: an exception thrown at any step of a scheduled render cycle does not
\* leave the frame callback, renderInFlight is false once the callback has
\* returned, and a later cycle in which nothing throws renders the current
\* selection.
C16_RenderErrorContained ==
  /\ fault = "none"
  /\ ~renderInFlight
  /\ (op = "render" /\ obs.step = "none") =>
       /\ lastRenderedCollectionID = computeSelectionContextID(hostSelection)
       /\ RowCollections = ExpectedChildren(hostSelection)
       /\ MountedRows = folderRows

\* a cycle has thrown, and a later cycle has mounted rows
C16_RenderedAfterFailedCycle ==
  /\ op = "render" /\ obs.step = "none" /\ obs.faulted
  /\ Len(folderRows) >= 1 /\ MountedRows = folderRows

\* C18: when the call of a single step other than the header / body lookup
\* throws (navigation-strip update, history push, column sync, observer
\* attachment, scroll reset), the cycle still mounts the rows of the resolved
\* container.
C18_StepErrorKeepsRows ==
  (/\ op = "render"
   /\ obs.step \in {"navStrip", "history", "columns", "resizeObserver", "observers",
                    "scroll"}
   /\ hostSelection.rowType \in {"collection", "library"})
    => /\ RowCollections = ExpectedChildren(hostSelection)
       /\ MountedRows = folderRows

\* C17: no step of this system removes, replaces or reorders a node of the
\* host: over every step but the host's own replacement of its body, the
\* sequence of native rows in the body is unchanged, every node that was in the
\* body and is no longer was a row of folderRows, and every node that is new is
\* a synthetic row.
C17_HostNodesUntouched ==
  [][op' # "replaceBody" =>
       /\ SelectSeq(bodyChildren', LAMBDA n : ~n.zfe)
            = SelectSeq(bodyChildren, LAMBDA n : ~n.zfe)
       /\ \A i \in 1..Len(bodyChildren) :
            ~InRows(bodyChildren[i], bodyChildren') => InRows(bodyChildren[i], folderRows)
       /\ \A i \in 1..Len(bodyChildren') :
            ~InRows(bodyChildren'[i], bodyChildren) => bodyChildren'[i].zfe]_vars

\* a shutdown has removed two mounted rows from a body that holds native rows
C17_TeardownAmongNativeRows ==
  /\ op = "shutdownFolderRows" /\ obs.prevRows = 2
  /\ bodyChildren = <<NativeRow(1), NativeRow(2)>> /\ folderRows = <<>>

\* C19: once navigation has settled after back / forward steps, the queue
\* pendingHistoryNavigations is empty, whatever the sequence of steps and whether
\* or not a target was still found in the tree.  (From a settled state nothing
\* happens until the user acts, so a queue that is not empty there is never
\* emptied by the system.)
C19_SettledQueueEmpty ==
  Settled => pendingHistoryNavigations = <<>>

\* C20: once onShutdown has returned and until the host calls startup or
\* scheduleRerender again, no render cycle runs and no synthetic row is mounted,
\* also when the settle timer of a row activation or the continuation of an
\* item drop was pending at the moment of the shutdown.
C20_QuietAfterShutdown ==
  obs.afterShutdown => ~obs.lateRender /\ folderRows = <<>>

\* C21: a render cycle that starts with the list scrolled and resolves a
\* container (or the library root) other than the one rendered before leaves
\* the true scroll coordinate at 0 and has requested the frame of the first of
\* its two retries.
C21_ContainerChangeSnapsScroll ==
  (op = "render" /\ obs.changed /\ obs.before.true > 0) =>
    /\ scrollTop = 0
    /\ \E k \in 1..Len(frames) : frames[k].kind = "snapFirst"

\* C22: a callback whose handle cancelFrame has been given never runs,
\* whether or not the main window was reachable when the handle was made and
\* when it was cancelled.
C22_CancelledCallbackNeverRuns == ~obs.ranCancelled

\* C23: at most one scrollable element is patched at any time.  A render
\* cycle that finds the patch on the body the host shows changes neither the
\* patch nor its record; one that finds it on another element leaves no patch
\* but on the body shown; and a shutdown with nothing patched patches nothing.
C23_OnePatchAtATime ==
  [][/\ Cardinality(patched') <= 1
     /\ (op' = "render" /\ itemsBody # NULL
           /\ scrollCompensationState.scroller = itemsBody
           /\ hostSelection.rowType \in {"collection", "library"})
          => /\ patched' = patched
             /\ scrollCompensationState' = scrollCompensationState
     /\ (op' = "render" /\ itemsBody # NULL
           /\ hostSelection.rowType \in {"collection", "library"})
          => \A q \in patched' : q.el = itemsBody
     /\ (op' = "shutdownFolderRows" /\ scrollCompensationState = NoComp)
          => /\ patched' = patched
             /\ scrollCompensationState' = NoComp]_vars

\* a render cycle has moved the accessor patch from the body it was on to the
\* body the host shows now
C23_PatchMovedToNewBody ==
  /\ op = "render"
  /\ obs.prevPatched = {[el |-> 1, layer |-> "accessor"]}
  /\ patched = {[el |-> 2, layer |-> "accessor"]}

\* C24: the accessor strategy and the proxy strategy agree, for every true
\* coordinate, offset and written value v: a read through the patch returns
\* max(0, true - offset), a write of v through the patch stores max(0, v + offset)
\* as the true coordinate, readNative returns the true coordinate and
\* writeNative stores the value it is given.
C24_StrategiesAgree ==
  LET s == Cur
      el == scrollCompensationState.scroller
  IN scrollCompensationState # NoComp =>
       /\ accessorGet(s, el) = Max(0, scrollTop - extraTopOffset)
       /\ proxyGet(s, el) = Max(0, scrollTop - extraTopOffset)
       /\ LogicalGet(s, el) = Max(0, scrollTop - extraTopOffset)
       /\ readNative(s) = scrollTop
       /\ \A v \in -MaxOffset..MaxScroll :
            /\ accessorSet(s, el, v).scrollTop = Max(0, v + extraTopOffset)
            /\ proxySet(s, el, v).scrollTop = Max(0, v + extraTopOffset)
            /\ LogicalSet(s, el, v).scrollTop = Max(0, v + extraTopOffset)
            /\ v >= 0 => writeNative(s, v).scrollTop = v
            /\ accessorSet(s, el, v) = proxySet(s, el, v)
       /\ op = "scroll" => \E v \in 0..MaxScroll : scrollTop = v + extraTopOffset

\* the host has scrolled through the proxy while the rows take up room above
\* its own
C24_ScrolledThroughProxy ==
  /\ op = "scroll" /\ scrollCompensationState.layer = "proxy"
  /\ extraTopOffset > 0 /\ scrollTop > extraTopOffset

\* the store calls of the handler that has just run
StoreAdded == \E k \in 1..Len(obs.storeCalls) : obs.storeCalls[k].kind = "add"

\* C25: a drop of items on a row adds them to the target before it removes
\* them from the source, removes nothing from the target, and removes nothing
\* at all when no add took place (target missing, add threw, no add operation):
\* an item that was in a collection is still in one.
C25_MoveKeepsItems ==
  op = "itemDrop" =>
    LET calls == obs.storeCalls
    IN /\ \A k \in 1..Len(calls) :
            calls[k].kind = "remove" => \E j \in 1..(k - 1) : calls[j].kind = "add"
       /\ \A k, j \in 1..Len(calls) :
            (calls[k].kind = "remove" /\ calls[j].kind = "add") =>
              calls[k].coll # calls[j].coll
       /\ ~StoreAdded => collectionItems = obs.itemsBefore
       /\ \A i \in Items :
            (\E c \in Containers : i \in obs.itemsBefore[c]) =>
              (\E c \in Containers : i \in collectionItems[c])

\* C26: a collection dropped on its own breadcrumb or on the breadcrumb of one
\* of its descendants changes nothing in the hierarchy store: no collection is
\* reparented and no item is added to or removed from a collection.
C26_RejectedDropMutatesNothing ==
  (op = "dropCollection" /\ obs.dropKind \in {"self", "child", "deeper"}) =>
    /\ ~obs.reparented
    /\ collectionItems = obs.itemsBefore

\* C27: at every moment while rows are mounted, each of them has as many cells
\* as the header has columns at that moment (stated for a header that shows at
\* least one column), also after the host has added or removed a column.
C27_CellsFollowHeader ==
  headerCells >= 1 =>
    \A k \in 1..Len(MountedRows) : MountedRows[k].cells = headerCells

NativeRowsInBody == SelectSeq(bodyChildren, isNativeItemRow)

\* C29: an arrow key on mounted row i of N.  ArrowUp on the first row changes
\* no selection; ArrowDown on the last row clears the selection of our rows and
\* selects the first row of the host when the host shows a row, and changes
\* nothing otherwise; in every other case row i - 1 or i + 1 becomes the
\* selected row.  ArrowUp on the first row of the host selects our last row.
\* The selected row is always one of the N rows, or none.
C29_ArrowKeysMoveSelection ==
  [][LET i == obs'.key.origin
         d == obs'.key.delta
         N == Len(folderRows)
         same == selectedFolderRow' = selectedFolderRow
                   /\ nativeSelection' = nativeSelection
     IN /\ op' = "arrowRow" =>
             /\ folderRows' = folderRows
             /\ (d = -1 /\ i = 1) => same
             /\ (d = 1 /\ i = N /\ NativeRowsInBody # <<>>) =>
                   /\ selectedFolderRow' = NULL
                   /\ nativeSelection' = {NativeRowsInBody[1].coll}
             /\ (d = 1 /\ i = N /\ NativeRowsInBody = <<>>) => same
             /\ ~(d = -1 /\ i = 1) /\ ~(d = 1 /\ i = N) =>
                   /\ selectedFolderRow' = i + d
                   /\ nativeSelection' = {}
        /\ (op' = "arrowNative" /\ N >= 1 /\ i = NativeRowsInBody[1].coll) =>
             /\ selectedFolderRow' = N
             /\ nativeSelection' = {}
        /\ selectedFolderRow' \in {NULL} \cup (1..Len(folderRows'))]_vars

\* ArrowDown on the last of two rows has handed the selection over to the
\* first row of the host
C29_HandedOverToNativeRow ==
  /\ op = "arrowRow" /\ obs.key.delta = 1 /\ obs.key.origin = 2 /\ Len(folderRows) = 2
  /\ selectedFolderRow = NULL /\ nativeSelection = {1}

\* C30: after a render cycle that mounts rows, our rows are one run of
\* consecutive children of the items body, in the order of folderRows, that ends
\* right before the first row of the host; when the body holds no row of the
\* host the run starts the body.
C30_RowsFormOneBlock ==
  (op = "render" /\ MountedRows # <<>>) =>
    LET ours == {k \in 1..Len(bodyChildren) : bodyChildren[k].zfe}
        native == {k \in 1..Len(bodyChildren) : isNativeItemRow(bodyChildren[k])}
        first == Least(ours)
    IN /\ ours = first..(first + Cardinality(ours) - 1)
       /\ MountedRows = folderRows
       /\ IF native # {} THEN first + Cardinality(ours) = Least(native) ELSE first = 1

\* a cycle has mounted two rows between the spacer and the first row of the host
C30_BlockAfterSpacer ==
  /\ op = "render" /\ Len(bodyChildren) >= 4
  /\ bodyChildren[1] = Spacer /\ bodyChildren[2].zfe /\ bodyChildren[3].zfe
  /\ isNativeItemRow(bodyChildren[4])

C32_ListenerSetUpOnce ==
  /\ hostHooks.select = (IF collectionSelectionRestore THEN 1 ELSE 0)
  /\ hostHooks.zfePatched = collectionSelectionRestore
  /\ hostHooks.listeners = (IF collectionSelectCleanup THEN 1 ELSE 0)
  /\ hostHooks.intervals = (IF checkInterval THEN 1 ELSE 0)
  /\ op = "teardown" =>
       /\ hostHooks.select = 0 /\ ~hostHooks.zfePatched
       /\ hostHooks.listeners = 0 /\ hostHooks.intervals = 0

\* the listener was set up twice, over a patched select, and is torn down
C32_TornDownAfterTwoSetups ==
  /\ op = "teardown" /\ obs.setups = 2
  /\ hostHooks.paneReady /\ hostHooks.original = 0

\* C33: a back / forward step leaves the entries of the history alone: once
\* the render cycle for the target of the last navigateHistory(d) has called
\* pushToHistory, navHistory is what it was before the step and navIndex is
\* the index before the step plus d.
C33_StepKeepsEntries ==
  (op = "render" /\ obs.trail.rendered) =>
    /\ navHistory = obs.trail.entries
    /\ navIndex = obs.trail.index

\* the target of a Back step over a history of three entries has been rendered
C33_BackStepRendered ==
  /\ op = "render" /\ obs.trail.rendered
  /\ Len(navHistory) = 3 /\ navIndex = 1 /\ pendingHistoryNavigations = <<>>

\* C34: when a cycle has rendered the collection X, selected directly while
\* the collection P at the current history position was shown and no history
\* step was awaited, X is the last entry of navHistory, navIndex points at it
\* and the entry before it is P.
C34_DirectVisitFollowsOrigin ==
  (/\ op = "render" /\ hostSelection.rowType = "collection"
   /\ obs.visit.idle /\ obs.visit.from # NULL /\ obs.visit.shown = obs.visit.from
   /\ hostSelection.id # obs.visit.from) =>
    /\ navIndex = Len(navHistory) - 1 /\ Len(navHistory) >= 2
    /\ navHistory[Len(navHistory)] = hostSelection.id
    /\ navHistory[Len(navHistory) - 1] = obs.visit.from

\* C35: navHistory never holds the same collection id at two adjacent
\* positions, whatever the sequence of visits and back / forward steps.
C35_NoAdjacentDuplicates ==
  \A i \in 1..(Len(navHistory) - 1) : navHistory[i] # navHistory[i + 1]

\* a collection was visited again after a Back step and a visit had truncated
\* and extended the history: it is in the history twice, not side by side
C35_RevisitedAfterTruncation ==
  /\ op = "render" /\ Len(navHistory) = 3 /\ navHistory[1] = navHistory[3]
  /\ obs.trail.target # NULL /\ pendingHistoryNavigations = <<>>

\* C36: navIndex is -1 when navHistory is empty and a position of navHistory
\* otherwise; navigateHistory(-1) changes the state iff navIndex > 0,
\* navigateHistory(+1) iff navIndex < Len(navHistory) - 1, and each moves
\* navIndex by its delta when it does.
C36_IndexInRange ==
  /\ IF navHistory = <<>> THEN navIndex = -1
     ELSE 0 <= navIndex /\ navIndex < Len(navHistory)
  /\ (navigateHistory(Cur, -1) # Cur) = (navIndex > 0)
  /\ (navigateHistory(Cur, 1) # Cur) = (navIndex < Len(navHistory) - 1)
  /\ \A delta \in {-1, 1} :
       navigateHistory(Cur, delta) # Cur =>
         navigateHistory(Cur, delta).navIndex = navIndex + delta

\* a Back step was made from the middle of the history: both directions were
\* open before it
C36_SteppedFromMiddle ==
  /\ op = "history" /\ Len(navHistory) = 3 /\ navIndex = 0
  /\ obs.trail.index = 0 /\ Len(pendingHistoryNavigations) = 1

\* C37: updateNavStrip returns without nesting calls of itself beyond any
\* bound: no call of it exhausts the call stack, also when the strip is
\* enabled but absent and mountNavStrip finds no items view root to mount it in.
C37_UpdateNavStripReturns == ~obs.exhausted

\* C38: an open breadcrumb overflow menu stays open while the host selection
\* does not change, until the user dismisses it or the strip is removed: a
\* step that is none of these (a tick of the 500 ms poll, a change in the
\* host's items view), taken while the menu is open, the current selection is
\* rendered and no render is owed, leaves the menu open.
C38_PollKeepsMenuOpen ==
  (/\ obs.menuBefore
   /\ op \notin {"navigate", "toggleMenu", "dismissMenu", "toggleStrip"}) =>
    navOverflowMenuCleanup

\* C39: selectedFolderRow is null or one of the rows in folderRows, in every
\* reachable state; after every render cycle and after every shutdown it is
\* null.
C39_SelectedRowInFolderRows ==
  /\ selectedFolderRow \in {NULL} \cup (1..Len(folderRows))
  /\ op \in {"render", "shutdownFolderRows"} => selectedFolderRow = NULL

\* a cycle has torn down two rows, the second of them selected, and mounted
\* one row
C39_CycleOverSelectedRow ==
  /\ op = "render" /\ obs.prevSelected = 2 /\ Len(folderRows) = 1
  /\ MountedRows = folderRows

====
